---- MODULE Spec2Model ----
(***************************************************************************)
(* Adhyayan: PDF question answering.  The model covers the summarizer and  *)
(* the answerer of llm_agent.py, the ingestion of ingest.py, the retrieval *)
(* of retrieval.py and the two session handlers of app.py/main_gradio.py.  *)
(* Short Python strings (names, questions, model answers, messages) are    *)
(* TLA+ strings.  Document text, tens of thousands of characters long, is  *)
(* a Text: a sequence of runs [s, n], the string s repeated n times.       *)
(***************************************************************************)
EXTENDS Integers, Sequences, FiniteSets, TLC

VARIABLES
    groq_api_key,   \* os.getenv("GROQ_API_KEY") is set
    full_text,      \* summarize_document: its argument
    sum_calls,      \* summarize_document: the llm.invoke calls made so far, in order
    summaries,      \* summarize_document: the list `summaries`
    sum_i,          \* summarize_document: 0-based index of the next slice of chunks[:3]
    sum_pc,         \* summarize_document: position in the function
    sum_ret,        \* summarize_document: what it returned or raised
    ans_question,   \* answer_with_context: its argument `question`
    ans_chunks,     \* answer_with_context: its argument `chunks`
    ans_prompt,     \* answer_with_context: the prompt built
    ans_calls,      \* answer_with_context: the llm.invoke calls made, in order
    ans_pc,         \* answer_with_context: position in the function
    ans_ret,        \* answer_with_context: what it returned or raised
    uploaded_files_state,   \* the global dict: session id -> list of document names
    doc_stats,      \* the global dict: session id -> document name -> stats
    created_chunks, \* history: document name -> the chunks ingest_pdf last built for it
    ingested,       \* history: the <<session id, name>> for which ingest_pdf has returned
    ing_pc,         \* ingest_files: position in the handler
    ing_session,    \* ingest_files: session_id
    ing_files,      \* ingest_files: its argument `files`
    ing_k,          \* ingest_files: 1-based index of the file the loop is at
    ing_local,      \* ingest_files: n, pages, doc_summary, pdf_name, path of that file
    ing_info,       \* ingest_files: the cards added to `info`
    ing_ret,        \* ingest_files: what the handler returned or raised
    n_uploads,      \* files handed to ingest_files so far
    ask_pc,         \* ask_question: position in the handler
    ask_session,    \* ask_question: session_id
    col,            \* ask_question: the document name it queries
    ask_calls,      \* ask_question: its calls of retrieve_chunks and search_papers
    ask_ret,        \* ask_question: what the handler returned or raised
    n_asks,         \* calls of ask_question so far
    search_question,    \* simple_text_search: its argument `question`
    search_chunks,      \* simple_text_search: its argument `chunks`
    relevant_chunks,    \* simple_text_search: the list `relevant_chunks`
    search_i,           \* simple_text_search: chunks the loop has looked at
    search_pc,          \* simple_text_search: position in the function
    search_ret,         \* simple_text_search: what it returned
    arxiv_resp,         \* search_arxiv_by_embedding: what the arXiv request gives
    semantic_resp,      \* search_semantic_scholar_by_embedding: what the Semantic Scholar request gives
    arxiv_papers,       \* search_papers_by_embedding: the list `arxiv_papers`
    semantic_papers,    \* search_papers_by_embedding: the list `semantic_papers`
    all_papers,         \* search_papers_by_embedding: the list `all_papers`
    seen_titles,        \* search_papers_by_embedding: the set `seen_titles`
    unique_papers,      \* search_papers_by_embedding: the list `unique_papers`
    pap_i,              \* search_papers_by_embedding: papers the loop has looked at
    pap_pc,             \* search_papers_by_embedding: position in the function
    pap_ret,            \* search_papers: what it returned or raised
    size_text,          \* check_pdf_size: its argument `full_text`
    size_tokens,        \* check_pdf_size: the local `tokens`
    size_pc,            \* check_pdf_size: position in the function
    size_ret,           \* check_pdf_size: what it returned
    doc_size_ret,       \* check_document_size: what it returned for the same text
    tok_text,           \* chunk_text_by_tokens: its argument `text`
    chunk_tokens,       \* chunk_text_by_tokens: its argument `chunk_tokens`
    overlap_tokens,     \* chunk_text_by_tokens: its argument `overlap_tokens`
    tok_chunks,         \* chunk_text_by_tokens: the list `chunks`
    tok_start,          \* chunk_text_by_tokens: the local `start`
    tok_pc,             \* chunk_text_by_tokens: position in the function
    para_text,          \* chunk_text_for_llm: its argument `text`
    max_chunk_size,     \* chunk_text_for_llm: its argument `max_chunk_size`
    paragraphs,         \* chunk_text_for_llm: the list `paragraphs`
    para_i,             \* chunk_text_for_llm: paragraphs the loop has looked at
    current_chunk,      \* chunk_text_for_llm: the local `current_chunk`
    para_chunks,        \* chunk_text_for_llm: the list `chunks`
    para_pc             \* chunk_text_for_llm: position in the function

env_vars == <<groq_api_key>>
sum_vars == <<full_text, sum_calls, summaries, sum_i, sum_pc, sum_ret>>
ans_vars == <<ans_question, ans_chunks, ans_prompt, ans_calls, ans_pc, ans_ret>>
glob_vars == <<uploaded_files_state, doc_stats>>
hist_vars == <<created_chunks, ingested>>
ing_vars == <<ing_pc, ing_session, ing_files, ing_k, ing_local, ing_info, ing_ret, n_uploads>>
ask_vars == <<ask_pc, ask_session, col, ask_calls, ask_ret, n_asks>>
app_vars == <<glob_vars, hist_vars, ing_vars, ask_vars>>
search_vars == <<search_question, search_chunks, relevant_chunks, search_i, search_pc, search_ret>>
papers_vars == <<arxiv_resp, semantic_resp, arxiv_papers, semantic_papers, all_papers, seen_titles, unique_papers, pap_i, pap_pc, pap_ret>>
size_vars == <<size_text, size_tokens, size_pc, size_ret, doc_size_ret>>
tok_vars == <<tok_text, chunk_tokens, overlap_tokens, tok_chunks, tok_start, tok_pc>>
para_vars == <<para_text, max_chunk_size, paragraphs, para_i, current_chunk, para_chunks, para_pc>>
vars == <<env_vars, sum_vars, ans_vars, app_vars, search_vars, papers_vars, size_vars, tok_vars, para_vars>>

(***************************************************************************)
(* Bounds of the model.                                                    *)
(***************************************************************************)
\* the longest text handed to the summarizer spans MaxSlices slices and one character
MaxSlices == 4
\* files uploaded in one run, over all calls of ingest_files
MaxUploads == 2
\* questions asked in one run
MaxQuestions == 1
\* the longest chunk list handed to simple_text_search
MaxChunks == 6
\* the longest list of pool entries in a response of a paper source
MaxEntries == 2
\* the texts handed to check_pdf_size are within SizeWindow characters of a limit
SizeWindow == 8
\* the longest text handed to chunk_text_by_tokens, in characters
MaxTextLen == 14
\* the largest chunk_tokens handed to chunk_text_by_tokens
MaxChunkTokens == 3
\* the turns of the loop of chunk_text_by_tokens the model follows
MaxTurns == 6
\* the most paragraphs of a text handed to chunk_text_for_llm
MaxParagraphs == 3

(***************************************************************************)
(* Python string operations.                                               *)
(***************************************************************************)
Min(a, b) == IF a < b THEN a ELSE b
Max(a, b) == IF a > b THEN a ELSE b

\* the character at 1-based position k
CharAt(s, k) == SubSeq(s, k, k)

IsSpace(c) == c \in {" ", "\n", "\t", "\r"}

RECURSIVE FirstNonSpace(_, _)
FirstNonSpace(s, k) ==
    IF k > Len(s) THEN k
    ELSE IF IsSpace(CharAt(s, k)) THEN FirstNonSpace(s, k + 1) ELSE k

RECURSIVE LastNonSpace(_, _)
LastNonSpace(s, k) ==
    IF k < 1 THEN k
    ELSE IF IsSpace(CharAt(s, k)) THEN LastNonSpace(s, k - 1) ELSE k

\* str.strip(), str.lstrip(), str.rstrip()
Strip(s) == SubSeq(s, FirstNonSpace(s, 1), LastNonSpace(s, Len(s)))
LStrip(s) == SubSeq(s, FirstNonSpace(s, 1), Len(s))
RStrip(s) == SubSeq(s, 1, LastNonSpace(s, Len(s)))

\* str.lower() on the ASCII letters
UpperCase == "ABCDEFGHIJKLMNOPQRSTUVWXYZ"
LowerCase == "abcdefghijklmnopqrstuvwxyz"
LowerChar(c) ==
    IF \E k \in 1..Len(UpperCase) : CharAt(UpperCase, k) = c
    THEN CharAt(LowerCase, CHOOSE k \in 1..Len(UpperCase) : CharAt(UpperCase, k) = c)
    ELSE c

RECURSIVE Lower(_)
Lower(s) == IF s = "" THEN "" ELSE LowerChar(CharAt(s, 1)) \o Lower(SubSeq(s, 2, Len(s)))

\* the first position from k on that holds white space, Len(s) + 1 when none does
RECURSIVE NextSpace(_, _)
NextSpace(s, k) ==
    IF k > Len(s) THEN k
    ELSE IF IsSpace(CharAt(s, k)) THEN k ELSE NextSpace(s, k + 1)

\* str.split(): the words between white space, from position k on
RECURSIVE SplitFrom(_, _)
SplitFrom(s, k) ==
    LET b == FirstNonSpace(s, k)
        e == NextSpace(s, b)
    IN  IF b > Len(s) THEN <<>> ELSE <<SubSeq(s, b, e - 1)>> \o SplitFrom(s, e)

Split(s) == SplitFrom(s, 1)

\* needle in hay
Contains(hay, needle) ==
    \E k \in 0..(Len(hay) - Len(needle)) : SubSeq(hay, k + 1, k + Len(needle)) = needle

\* s * n
RECURSIVE Rep(_, _)
Rep(s, n) ==
    IF n = 0 THEN ""
    ELSE IF n % 2 = 0 THEN LET h == Rep(s, n \div 2) IN h \o h
    ELSE s \o Rep(s, n - 1)

\* sep.join(list)
RECURSIVE Join(_, _)
Join(sep, list) ==
    IF list = <<>> THEN ""
    ELSE IF Len(list) = 1 THEN list[1]
    ELSE list[1] \o sep \o Join(sep, Tail(list))

\* list[:n]
Take(list, n) == SubSeq(list, 1, Min(n, Len(list)))

(***************************************************************************)
(* Text: a Python string kept as runs.  A run [s |-> s, n |-> 1] is the    *)
(* literal s; a run [s |-> c, n |-> n] is the character c repeated n       *)
(* times.  No run is empty.                                                *)
(***************************************************************************)
Lit(s) == IF s = "" THEN <<>> ELSE <<[s |-> s, n |-> 1]>>
Run(c, n) == IF n <= 0 THEN <<>> ELSE <<[s |-> c, n |-> n]>>

RunLen(g) == Len(g.s) * g.n

\* len(text)
RECURSIVE TLen(_)
TLen(t) == IF t = <<>> THEN 0 ELSE RunLen(Head(t)) + TLen(Tail(t))

\* the characters a..b-1 (0-based) of one run
RunSlice(g, a, b) == IF g.n = 1 THEN Lit(SubSeq(g.s, a + 1, b)) ELSE Run(g.s, b - a)

\* text[lo:hi] for 0 <= lo, 0 <= hi
RECURSIVE TSlice(_, _, _)
TSlice(t, lo, hi) ==
    IF t = <<>> \/ hi <= 0 THEN <<>>
    ELSE LET g == Head(t)
             a == Min(Max(lo, 0), RunLen(g))
             b == Min(hi, RunLen(g))
         IN  RunSlice(g, a, b) \o TSlice(Tail(t), lo - RunLen(g), hi - RunLen(g))

\* text.lstrip()
RECURSIVE TLStrip(_)
TLStrip(t) ==
    IF t = <<>> THEN <<>>
    ELSE LET g == Head(t)
         IN  IF g.n > 1
             THEN (IF IsSpace(g.s) THEN TLStrip(Tail(t)) ELSE t)
             ELSE (IF LStrip(g.s) = "" THEN TLStrip(Tail(t))
                   ELSE Lit(LStrip(g.s)) \o Tail(t))

\* text.rstrip()
RECURSIVE TRStrip(_)
TRStrip(t) ==
    IF t = <<>> THEN <<>>
    ELSE LET g == t[Len(t)]
             front == SubSeq(t, 1, Len(t) - 1)
         IN  IF g.n > 1
             THEN (IF IsSpace(g.s) THEN TRStrip(front) ELSE t)
             ELSE (IF RStrip(g.s) = "" THEN TRStrip(front)
                   ELSE front \o Lit(RStrip(g.s)))

\* text.strip()
TStrip(t) == TRStrip(TLStrip(t))

\* the run written out as a string
Plain(g) == Rep(g.s, g.n)

\* text == other, whatever the runs either is cut into
RECURSIVE TEq(_, _)
TEq(a, b) ==
    IF a = <<>> \/ b = <<>> THEN a = <<>> /\ b = <<>>
    ELSE LET m == Min(RunLen(a[1]), RunLen(b[1]))
             x == RunSlice(a[1], 0, m)[1]
             y == RunSlice(b[1], 0, m)[1]
         IN  /\ IF x.n > 1 /\ y.n > 1 THEN x.s = y.s ELSE Plain(x) = Plain(y)
             /\ TEq(RunSlice(a[1], m, RunLen(a[1])) \o Tail(a),
                    RunSlice(b[1], m, RunLen(b[1])) \o Tail(b))

(***************************************************************************)
(* The language model: llm.invoke(prompt) answers with some content or     *)
(* raises some error (a timeout, a refused request).                       *)
(***************************************************************************)
LlmContents == {"  Topic summary.\n", " "}
LlmErrors == {"Request timed out.", "rate_limit_exceeded"}

LlmOutcomes ==
    [ok : {TRUE}, content : LlmContents, error : {""}]
        \cup [ok : {FALSE}, content : {""}, error : LlmErrors]

\* a function's outcome: a returned value, or an exception with its message
Returned(v) == [raised |-> FALSE, value |-> v]
Raised(msg) == [raised |-> TRUE, value |-> msg]
NoRet == [raised |-> FALSE, value |-> "<running>"]

\* ChatGroq(model=MODEL, groq_api_key=os.getenv("GROQ_API_KEY"), ...) refuses a missing key
GroqKeyError == "The api_key client option must be set"

(***************************************************************************)
(* llm_agent.summarize_document                                            *)
(***************************************************************************)
max_chars == 20000
MaxPartial == 3

\* [full_text[i:i+chunk_size] for i in range(0, len(full_text), chunk_size)]
RECURSIVE SplitChunks(_, _, _)
SplitChunks(text, start, chunk_size) ==
    IF start >= TLen(text) THEN <<>>
    ELSE <<TSlice(text, start, start + chunk_size)>>
             \o SplitChunks(text, start + chunk_size, chunk_size)

chunks_of(text) == SplitChunks(text, 0, max_chars)

\* a loop over every slice instead of chunks[:3]
partial_slices_all(text) == chunks_of(text)

\* chunks[:3] (line 77)
partial_slices(text) == Take(chunks_of(text), MaxPartial)

\* a check that never finds the list empty
no_summaries_never(got) == FALSE

\* `if not summaries` (line 93)
no_summaries(got) == got = <<>>

PartialPrompt(chunk) ==
    Lit("\nSummarize the key topics and methods in this section of a research document:\n\n")
        \o chunk
        \o Lit("\n\nProvide a brief 2-3 sentence summary focusing on the main topic.\n")

FinalPrompt(combined) ==
    Lit("\nBased on these section summaries of a research paper, provide a comprehensive 3-4 sentence summary of the overall document:\n\n")
        \o Lit(combined)
        \o Lit("\n\nFocus on: main topic, research field, and key methodology.\nReturn only the summary, no preamble.\n")

DirectPrompt(text) ==
    Lit("\nYou are an expert in analyzing academic documents.\n\nSummarize the core topic, field, and methods described in the following document text.\nThe summary must be 3-4 sentences and strictly about the topic.\n\nDocument:\n")
        \o text
        \o Lit("\n\nReturn only the topic summary.\n")

AllPartialsFailedMessage == "Unable to generate summary due to processing errors."
SummaryFailed(e) == "Summary generation failed: " \o e

\* a ceiling that a text of exactly max_chars characters already exceeds
document_too_large_at_ceiling(text) == TLen(text) >= max_chars

\* `if len(full_text) > max_chars` (line 69)
document_too_large(text) == TLen(text) > max_chars

\* one llm.invoke: the call site, the prompt sent, and how the model answered
Call(kind, prompt, o) ==
    [kind |-> kind, prompt |-> prompt, ok |-> o.ok, content |-> o.content, error |-> o.error]

\* lines 58-77: build the client, measure the text, choose the path
SummarizeBegin ==
    /\ sum_pc = "init"
    /\ IF ~groq_api_key
       THEN /\ sum_pc' = "done"
            /\ sum_ret' = Raised(GroqKeyError)
       ELSE /\ sum_pc' = (IF document_too_large(full_text) THEN "partial" ELSE "direct")
            /\ sum_ret' = sum_ret
    /\ sum_i' = 0
    /\ summaries' = <<>>
    /\ sum_calls' = <<>>
    /\ UNCHANGED <<full_text, env_vars, para_vars, tok_vars, size_vars, papers_vars, search_vars, ans_vars, app_vars>>

\* lines 77-94: one turn of the loop over chunks[:3], and the check after its last turn
SummarizePartial ==
    /\ sum_pc = "partial"
    /\ \E o \in LlmOutcomes :
         LET todo == partial_slices(full_text)
             chunk == todo[sum_i + 1]
             got == IF o.ok THEN Append(summaries, Strip(o.content)) ELSE summaries
             last == sum_i + 1 >= Len(todo)
         IN  /\ sum_calls' = Append(sum_calls, Call("partial", PartialPrompt(chunk), o))
             /\ summaries' = got
             /\ sum_i' = sum_i + 1
             /\ IF last /\ no_summaries(got)
                THEN /\ sum_pc' = "done"
                     /\ sum_ret' = Returned(AllPartialsFailedMessage)
                ELSE /\ sum_pc' = (IF last THEN "reduce" ELSE "partial")
                     /\ sum_ret' = sum_ret
    /\ UNCHANGED <<full_text, env_vars, para_vars, tok_vars, size_vars, papers_vars, search_vars, ans_vars, app_vars>>

\* a fallback to the joined partial summaries
ReduceFailedJoined(sums, e) == Join(" ", sums)

\* what the reduction's except branch returns (line 111)
ReduceFailed(sums, e) == SummaryFailed(e)

\* lines 96-111: the reduction call over the joined partial summaries
SummarizeReduce ==
    /\ sum_pc = "reduce"
    /\ \E o \in LlmOutcomes :
         /\ sum_calls' = Append(sum_calls, Call("reduce", FinalPrompt(Join(" ", summaries)), o))
         /\ sum_ret' = Returned(IF o.ok THEN Strip(o.content)
                                ELSE ReduceFailed(summaries, o.error))
    /\ sum_pc' = "done"
    /\ UNCHANGED <<full_text, summaries, sum_i, env_vars, para_vars, tok_vars, size_vars, papers_vars, search_vars, ans_vars, app_vars>>

\* lines 113-130: the single call of a text within the ceiling
SummarizeDirect ==
    /\ sum_pc = "direct"
    /\ \E o \in LlmOutcomes :
         /\ sum_calls' = Append(sum_calls, Call("direct", DirectPrompt(full_text), o))
         /\ sum_ret' = Returned(IF o.ok THEN Strip(o.content) ELSE SummaryFailed(o.error))
    /\ sum_pc' = "done"
    /\ UNCHANGED <<full_text, summaries, sum_i, env_vars, para_vars, tok_vars, size_vars, papers_vars, search_vars, ans_vars, app_vars>>

summarize_document == SummarizeBegin \/ SummarizePartial \/ SummarizeReduce \/ SummarizeDirect

SummarizerIdle ==
    /\ full_text = <<>>
    /\ sum_calls = <<>>
    /\ summaries = <<>>
    /\ sum_i = 0
    /\ sum_pc = "idle"
    /\ sum_ret = NoRet

(***************************************************************************)
(* llm_agent.answer_with_context                                           *)
(*                                                                         *)
(* A chunk is one of the shapes the function branches on: a str            *)
(* [kind |-> "str", text], a dict [kind |-> "dict", text, page, source]    *)
(* as ingest_pdf builds them, or an object with metadata and page_content  *)
(* [kind |-> "doc", text, page, source].                                   *)
(***************************************************************************)
StrChunk(text) == [kind |-> "str", text |-> text, page |-> 0, source |-> ""]
DictChunk(text, page, source) == [kind |-> "dict", text |-> text, page |-> page, source |-> source]
DocChunk(text, page, source) == [kind |-> "doc", text |-> text, page |-> page, source |-> source]

\* str(n) for n >= 0
RECURSIVE Str(_)
Str(n) ==
    IF n < 10 THEN CharAt("0123456789", n + 1)
    ELSE Str(n \div 10) \o CharAt("0123456789", (n % 10) + 1)

\* str(c) of a dict chunk: the dict's repr (of texts that repr leaves unescaped)
DictRepr(c) ==
    Lit("{'text': '") \o c.text
        \o Lit("', 'metadata': {'page': " \o Str(c.page) \o ", 'source': '" \o c.source \o "'}}")

\* lines 24-26 on a chunk that is no str: a dict has neither attribute, so meta = {} and
\* content = str(c), and no AttributeError is raised that would reach lines 30-32
ChunkMeta(c) ==
    IF c.kind = "doc" THEN [source |-> c.source, page |-> Str(c.page)]
    ELSE [source |-> "document", page |-> "N/A"]

ChunkContent(c) == IF c.kind = "doc" THEN c.text ELSE DictRepr(c)

\* lines 17-33: the label and the text one chunk adds to context_text
ContextEntry(i, c) ==
    IF c.kind = "str"
    THEN Lit("[Chunk " \o Str(i) \o "]\n") \o c.text \o Lit("\n\n")
    ELSE Lit("[Chunk " \o Str(i) \o " from " \o ChunkMeta(c).source
                 \o " page=" \o ChunkMeta(c).page \o "]\n")
             \o ChunkContent(c) \o Lit("\n\n")

\* lines 13-33: context_text after the first k chunks
RECURSIVE ContextText(_, _)
ContextText(chunks, k) ==
    IF k = 0 THEN <<>> ELSE ContextText(chunks, k - 1) \o ContextEntry(k, chunks[k])

\* lines 35-45
AnswerPrompt(question, chunks) ==
    Lit("\nAnswer the question using ONLY these chunks:\n\n")
        \o ContextText(chunks, Len(chunks))
        \o Lit("\n\nQuestion: " \o question
                 \o "\n\nFormat:\n1) Final answer\n2) Citations (which chunk labels you used)\n")

Apology(e) == "I apologize, but I encountered an error while processing your question: " \o e

\* an except branch that lets the error through
AnswerFailedRaises(e) == Raised(e)

\* lines 50-51
AnswerFailed(e) == Returned(Apology(e))

\* lines 7-45: build the client and the prompt
AnswerBegin ==
    /\ ans_pc = "init"
    /\ IF ~groq_api_key
       THEN /\ ans_pc' = "done"
            /\ ans_ret' = Raised(GroqKeyError)
            /\ ans_prompt' = ans_prompt
       ELSE /\ ans_pc' = "invoke"
            /\ ans_ret' = ans_ret
            /\ ans_prompt' = AnswerPrompt(ans_question, ans_chunks)
    /\ ans_calls' = <<>>
    /\ UNCHANGED <<ans_question, ans_chunks, env_vars, para_vars, tok_vars, size_vars, papers_vars, search_vars, sum_vars, app_vars>>

\* lines 47-51: the one call of the model
AnswerInvoke ==
    /\ ans_pc = "invoke"
    /\ \E o \in LlmOutcomes :
         /\ ans_calls' = Append(ans_calls, Call("answer", ans_prompt, o))
         /\ ans_ret' = (IF o.ok THEN Returned(o.content) ELSE AnswerFailed(o.error))
    /\ ans_pc' = "done"
    /\ UNCHANGED <<ans_question, ans_chunks, ans_prompt, env_vars, para_vars, tok_vars, size_vars, papers_vars, search_vars, sum_vars, app_vars>>

answer_with_context == AnswerBegin \/ AnswerInvoke

AnswererIdle ==
    /\ ans_question = ""
    /\ ans_chunks = <<>>
    /\ ans_prompt = <<>>
    /\ ans_calls = <<>>
    /\ ans_pc = "idle"
    /\ ans_ret = NoRet

(***************************************************************************)
(* Python dicts are functions whose domain is the set of keys.             *)
(***************************************************************************)
EmptyDict == <<>>
Put(d, k, v) == [x \in DOMAIN d \cup {k} |-> IF x = k THEN v ELSE d[x]]

(***************************************************************************)
(* utils.save_uploaded_file and the names derived from its path            *)
(***************************************************************************)
UPLOAD_DIR == "./data/uploads"

\* the path the upload is written to; the copy of the bytes is the pdf of the file
save_uploaded_file(upload_file) == UPLOAD_DIR \o "/" \o upload_file.filename

\* the last position of character c in s[1..k], 0 when there is none
RECURSIVE LastIndexOf(_, _, _)
LastIndexOf(s, c, k) ==
    IF k = 0 THEN 0
    ELSE IF CharAt(s, k) = c THEN k ELSE LastIndexOf(s, c, k - 1)

\* os.path.basename
Basename(path) == SubSeq(path, LastIndexOf(path, "/", Len(path)) + 1, Len(path))

\* os.path.splitext(name)[0]
SplitextRoot(name) ==
    LET d == LastIndexOf(name, ".", Len(name))
    IN  IF d <= 1 THEN name ELSE SubSeq(name, 1, d - 1)

\* os.path.splitext(os.path.basename(path))[0]
DocName(path) == SplitextRoot(Basename(path))

(***************************************************************************)
(* ingest.py.  A pdf is [parses, pages]: whether PdfReader reads it, and   *)
(* what extract_text gives for each page, [none, text] (None or a string). *)
(***************************************************************************)
\* page.extract_text() or ""
ExtractedText(p) == IF p.none THEN <<>> ELSE p.text

\* a loader that keeps every page, blank or not
RECURSIVE LoadAllPages(_, _)
LoadAllPages(raw, k) ==
    IF k = 0 THEN <<>>
    ELSE LoadAllPages(raw, k - 1) \o <<[page |-> k, text |-> ExtractedText(raw[k])]>>

\* load_pdf lines 9-13: the pages among the first k whose text is not blank
RECURSIVE LoadPages(_, _)
LoadPages(raw, k) ==
    IF k = 0 THEN <<>>
    ELSE LoadPages(raw, k - 1)
             \o (IF TStrip(ExtractedText(raw[k])) # <<>>
                 THEN <<[page |-> k, text |-> ExtractedText(raw[k])]>>
                 ELSE <<>>)

load_pdf_keeping_blank(pdf) == LoadAllPages(pdf.pages, Len(pdf.pages))

\* load_pdf of a file PdfReader could read
load_pdf(pdf) == LoadPages(pdf.pages, Len(pdf.pages))

\* extract_document_text lines 18-20, over the first k pages
RECURSIVE PagesText(_, _)
PagesText(pages, k) ==
    IF k = 0 THEN <<>>
    ELSE PagesText(pages, k - 1)
             \o Lit("Page " \o Str(pages[k].page) \o ":\n") \o pages[k].text \o Lit("\n\n")

extract_document_text(pages) == TStrip(PagesText(pages, Len(pages)))

PdfParseError == "PdfReadError: EOF marker not found"
NoTextError(pdf_name) == "No text could be extracted from " \o pdf_name

\* lines 75-77: the summary built when summarize_document raised
FallbackSummary(pages, pdf_name) ==
    Lit("Document: " \o pdf_name \o ". First page preview: ")
        \o TSlice(pages[1].text, 0, 500) \o Lit("...")

\* a try without its except: the summarizer's exception leaves ingest_pdf
SummaryOrRaise(ret, pages, pdf_name) == [raised |-> ret.raised, summary |-> Lit(ret.value)]

\* lines 70-77: the summary, or the fallback when summarize_document raised
SummaryOrFallback(ret, pages, pdf_name) ==
    [raised |-> FALSE,
     summary |-> IF ret.raised THEN FallbackSummary(pages, pdf_name) ELSE Lit(ret.value)]

\* chunks numbered by their position in the list of pages kept
RECURSIVE BuildChunksByPosition(_, _, _)
BuildChunksByPosition(pages, pdf_name, k) ==
    IF k = 0 THEN <<>>
    ELSE BuildChunksByPosition(pages, pdf_name, k - 1)
             \o (IF TStrip(pages[k].text) # <<>>
                 THEN <<DictChunk(pages[k].text, k, pdf_name)>>
                 ELSE <<>>)

\* lines 80-90: one chunk per page with text, over the first k pages
RECURSIVE BuildChunks(_, _, _)
BuildChunks(pages, pdf_name, k) ==
    IF k = 0 THEN <<>>
    ELSE BuildChunks(pages, pdf_name, k - 1)
             \o (IF TStrip(pages[k].text) # <<>>
                 THEN <<DictChunk(pages[k].text, pages[k].page, pdf_name)>>
                 ELSE <<>>)

\* the page count ingest_pdf returns (line 94)
PageCount(pages) == Len(pages)

(***************************************************************************)
(* The uploads of the model.                                               *)
(***************************************************************************)
NonePage == [none |-> TRUE, text |-> <<>>]
TextPage(t) == [none |-> FALSE, text |-> t]

NotAPdf == [parses |-> FALSE, pages |-> <<>>]
ScannedPdf == [parses |-> TRUE, pages |-> <<NonePage, TextPage(Lit(" \n"))>>]
ThreePagePdf ==
    [parses |-> TRUE,
     pages |-> <<TextPage(Lit("Deep learning methods.")), TextPage(<<>>),
                 TextPage(Lit("Results and discussion.\n"))>>]
LongPdf == [parses |-> TRUE, pages |-> <<TextPage(Lit("Survey. ") \o Run("a", 30000))>>]

Pdfs == {NotAPdf, ScannedPdf, ThreePagePdf, LongPdf}
UploadFiles ==
    [filename : {"a.pdf"}, pdf : {NotAPdf, ScannedPdf, ThreePagePdf}]
        \cup [filename : {"b.pdf"}, pdf : {LongPdf}]

\* session_state as the interface passes it: empty, or the id of a second session
SessionStates == {"", "s2"}

(***************************************************************************)
(* main_gradio.py / app.py: ingest_files                                   *)
(***************************************************************************)
get_session_id == "user_session"

\* session_state or get_session_id()
SessionId(session_state) == IF session_state = "" THEN get_session_id ELSE session_state

NoLocal == [n |-> 0, pages |-> 0, doc_summary |-> <<>>, pdf_name |-> "", path |-> ""]
HandlerRunning == [state |-> "running", error |-> "", info |-> <<>>, stats |-> EmptyDict]
HandlerRaised(e) == [state |-> "raised", error |-> e, info |-> <<>>, stats |-> EmptyDict]

\* format_stats: the pages and chunks shown for each document of the session
StatsCards(stats) == [name \in DOMAIN stats |-> [pages |-> stats[name].pages, chunks |-> stats[name].chunks]]

SummarizerReset ==
    /\ full_text' = <<>>
    /\ sum_calls' = <<>>
    /\ summaries' = <<>>
    /\ sum_i' = 0
    /\ sum_pc' = "idle"
    /\ sum_ret' = NoRet

\* lines 27-34: the session's entries are created, the loop is entered
IngestFilesBegin ==
    /\ ing_pc = "idle"
    /\ n_uploads < MaxUploads
    /\ \E session_state \in SessionStates, len \in 1..(MaxUploads - n_uploads) :
         \E files \in [1..len -> UploadFiles] :
           LET session_id == SessionId(session_state)
           IN  /\ ing_session' = session_id
               /\ ing_files' = files
               /\ n_uploads' = n_uploads + len
               /\ uploaded_files_state' =
                    (IF session_id \in DOMAIN uploaded_files_state THEN uploaded_files_state
                     ELSE Put(uploaded_files_state, session_id, <<>>))
               /\ doc_stats' =
                    (IF session_id \in DOMAIN doc_stats THEN doc_stats
                     ELSE Put(doc_stats, session_id, EmptyDict))
    /\ ing_pc' = "next"
    /\ ing_k' = 1
    /\ ing_local' = NoLocal
    /\ ing_info' = <<>>
    /\ ing_ret' = HandlerRunning
    /\ UNCHANGED <<env_vars, para_vars, tok_vars, size_vars, papers_vars, search_vars, sum_vars, ans_vars, hist_vars, ask_vars>>

\* lines 36-37 and ingest_pdf lines 53-66: save the file, load it, hand its text to the
\* summarizer; an unreadable file and a file without text raise out of the handler
IngestPdfLoad ==
    /\ ing_pc = "next"
    /\ ing_k <= Len(ing_files)
    /\ LET f == ing_files[ing_k]
           pdf_name == DocName(save_uploaded_file(f))
       IN  IF ~f.pdf.parses
           THEN /\ ing_pc' = "idle"
                /\ ing_ret' = HandlerRaised(PdfParseError)
                /\ UNCHANGED sum_vars
           ELSE IF load_pdf(f.pdf) = <<>>
           THEN /\ ing_pc' = "idle"
                /\ ing_ret' = HandlerRaised(NoTextError(pdf_name))
                /\ UNCHANGED sum_vars
           ELSE /\ ing_pc' = "summarize"
                /\ ing_ret' = ing_ret
                /\ full_text' = extract_document_text(load_pdf(f.pdf))
                /\ sum_pc' = "init"
                /\ UNCHANGED <<sum_calls, summaries, sum_i, sum_ret>>
    /\ UNCHANGED <<ing_session, ing_files, ing_k, ing_local, ing_info, n_uploads>>
    /\ UNCHANGED <<env_vars, para_vars, tok_vars, size_vars, papers_vars, search_vars, ans_vars, glob_vars, hist_vars, ask_vars>>

\* ingest_pdf lines 68-94 and the handler's lines 39-40: the summary or its fallback, the
\* chunks, the return of ingest_pdf, and the name appended to the session's list
IngestPdfReturn ==
    /\ ing_pc = "summarize"
    /\ sum_pc = "done"
    /\ LET f == ing_files[ing_k]
           path == save_uploaded_file(f)
           pdf_name == DocName(path)
           pages == load_pdf(f.pdf)
           r == SummaryOrFallback(sum_ret, pages, pdf_name)
           chunks == BuildChunks(pages, pdf_name, Len(pages))
           col_name == DocName(path)
       IN  IF r.raised
           THEN /\ ing_pc' = "idle"
                /\ ing_ret' = HandlerRaised(sum_ret.value)
                /\ UNCHANGED <<ing_local, glob_vars, hist_vars>>
           ELSE /\ ing_pc' = "stats"
                /\ ing_ret' = ing_ret
                /\ ing_local' = [n |-> Len(chunks), pages |-> PageCount(pages),
                                 doc_summary |-> r.summary, pdf_name |-> pdf_name,
                                 path |-> path]
                /\ created_chunks' = Put(created_chunks, pdf_name, chunks)
                /\ ingested' = ingested \cup {<<ing_session, pdf_name>>}
                /\ uploaded_files_state' =
                     [uploaded_files_state EXCEPT ![ing_session] = Append(@, col_name)]
                /\ doc_stats' = doc_stats
    /\ UNCHANGED <<ing_session, ing_files, ing_k, ing_info, n_uploads>>
    /\ UNCHANGED <<env_vars, para_vars, tok_vars, size_vars, papers_vars, search_vars, sum_vars, ans_vars, ask_vars>>

\* lines 42-56: the stats of the document are stored, its card is added to info
IngestFilesRecord ==
    /\ ing_pc = "stats"
    /\ LET col_name == DocName(ing_local.path)
       IN  /\ doc_stats' =
                [doc_stats EXCEPT ![ing_session] =
                    Put(@, col_name, [pages |-> ing_local.pages, chunks |-> ing_local.n,
                                      path |-> ing_local.path,
                                      topic_summary |-> ing_local.doc_summary,
                                      pdf |-> ing_local.pdf_name])]
           /\ ing_info' = Append(ing_info, [name |-> col_name, chunks |-> ing_local.n,
                                            pages |-> ing_local.pages])
    /\ ing_k' = ing_k + 1
    /\ ing_pc' = "next"
    /\ SummarizerReset
    /\ UNCHANGED <<ing_session, ing_files, ing_local, ing_ret, n_uploads>>
    /\ UNCHANGED <<env_vars, para_vars, tok_vars, size_vars, papers_vars, search_vars, ans_vars, uploaded_files_state, hist_vars, ask_vars>>

\* line 58: the loop is over, the handler returns info and the session's stats
IngestFilesReturn ==
    /\ ing_pc = "next"
    /\ ing_k > Len(ing_files)
    /\ ing_ret' = [state |-> "returned", error |-> "", info |-> ing_info,
                   stats |-> StatsCards(doc_stats[ing_session])]
    /\ ing_pc' = "idle"
    /\ UNCHANGED <<ing_session, ing_files, ing_k, ing_local, ing_info, n_uploads>>
    /\ UNCHANGED <<env_vars, para_vars, tok_vars, size_vars, papers_vars, search_vars, sum_vars, ans_vars, glob_vars, hist_vars, ask_vars>>

ingest_files ==
    \/ IngestFilesBegin
    \/ IngestPdfLoad
    \/ IngestPdfReturn
    \/ IngestFilesRecord
    \/ IngestFilesReturn

(***************************************************************************)
(* retrieval.retrieve_chunks and ingest.get_document_chunks                *)
(***************************************************************************)
\* lines 12-16: three instruction strings built from the question and the name
retrieve_chunks(question, pdf_name) ==
    << StrChunk(Lit("You are analyzing the research paper titled: " \o pdf_name)),
       StrChunk(Lit("User question: " \o question)),
       StrChunk(Lit("Provide a clear, accurate, and well-structured answer based on the paper's content.")) >>

get_document_chunks(pdf_name) == <<>>

(***************************************************************************)
(* retrieval.simple_text_search.  A chunk is [text, page], text a string.  *)
(***************************************************************************)
\* line 27: some word of the lowered question occurs in the lowered text
KeywordMatch(question_lower, text_lower) ==
    \E k \in 1..Len(Split(question_lower)) : Contains(text_lower, Split(question_lower)[k])

\* a fallback of the first five chunks
fallback_first_five(chunks) == Take(chunks, 5)

\* line 32: chunks[:3]
fallback_chunks(chunks) == Take(chunks, 3)

\* lines 24-28: one turn of the loop
SearchLoop ==
    /\ search_pc = "loop"
    /\ search_i < Len(search_chunks)
    /\ LET chunk == search_chunks[search_i + 1]
           question_lower == Lower(search_question)
           text_lower == Lower(chunk.text)
       IN  relevant_chunks' =
               (IF KeywordMatch(question_lower, text_lower)
                THEN Append(relevant_chunks, chunk) ELSE relevant_chunks)
    /\ search_i' = search_i + 1
    /\ UNCHANGED <<search_question, search_chunks, search_pc, search_ret>>
    /\ UNCHANGED <<env_vars, para_vars, tok_vars, size_vars, papers_vars, sum_vars, ans_vars, app_vars>>

\* lines 30-34: the fallback when nothing matched, and the return
SearchReturn ==
    /\ search_pc = "loop"
    /\ search_i = Len(search_chunks)
    /\ relevant_chunks' =
           (IF relevant_chunks = <<>> /\ search_chunks # <<>>
            THEN fallback_chunks(search_chunks) ELSE relevant_chunks)
    /\ search_ret' = relevant_chunks'
    /\ search_pc' = "done"
    /\ UNCHANGED <<search_question, search_chunks, search_i>>
    /\ UNCHANGED <<env_vars, para_vars, tok_vars, size_vars, papers_vars, sum_vars, ans_vars, app_vars>>

simple_text_search == SearchLoop \/ SearchReturn

SearchIdle ==
    /\ search_question = ""
    /\ search_chunks = <<>>
    /\ relevant_chunks = <<>>
    /\ search_i = 0
    /\ search_pc = "idle"
    /\ search_ret = <<>>

\* the questions asked
AskQuestions == {"", "What method is used?"}
Questions == {"", "What method is used?", "Who wrote it?"}

(***************************************************************************)
(* main_gradio.py / app.py: ask_question                                   *)
(***************************************************************************)
\* what paper_search.search_papers may answer with
SamplePaper ==
    [title |-> "Attention Is All You Need", link |-> "http://arxiv.org/abs/1706.03762v7",
     summary |-> "The dominant sequence transduction models"]
PaperLists == {<<>>, <<SamplePaper>>}

AskRunning == [state |-> "running", error |-> "", kind |-> "", answer |-> "", papers |-> <<>>]
AskRaised(e) == [state |-> "raised", error |-> e, kind |-> "", answer |-> "", papers |-> <<>>]
NoDocumentsUploaded ==
    [state |-> "returned", error |-> "", kind |-> "no_documents", answer |-> "", papers |-> <<>>]
Answered(ans, papers) ==
    [state |-> "returned", error |-> "", kind |-> "answer", answer |-> ans, papers |-> papers]

\* a check of the key alone
no_documents_key_only(session_id) == session_id \notin DOMAIN uploaded_files_state

\* line 108
no_documents(session_id) ==
    \/ session_id \notin DOMAIN uploaded_files_state
    \/ uploaded_files_state[session_id] = <<>>

\* the name appended last
queried_document_latest(names) == names[Len(names)]

\* line 117: uploaded_files_state[session_id][0]
queried_document(names) == names[1]

AnswererReset ==
    /\ ans_question' = ""
    /\ ans_chunks' = <<>>
    /\ ans_prompt' = <<>>
    /\ ans_calls' = <<>>
    /\ ans_pc' = "idle"
    /\ ans_ret' = NoRet

\* lines 106-120: the no-documents answer, or the first name of the session's list, the
\* chunks retrieved for it and the call of answer_with_context
AskBegin ==
    /\ ask_pc = "idle"
    /\ n_asks < MaxQuestions
    /\ n_asks' = n_asks + 1
    /\ \E question \in AskQuestions, session_state \in SessionStates :
         LET session_id == SessionId(session_state)
         IN  /\ ask_session' = session_id
             /\ IF no_documents(session_id)
                THEN /\ ask_ret' = NoDocumentsUploaded
                     /\ ask_pc' = "idle"
                     /\ col' = ""
                     /\ ask_calls' = <<>>
                     /\ UNCHANGED ans_vars
                ELSE /\ IF uploaded_files_state[session_id] = <<>>
                        THEN /\ ask_ret' = AskRaised("IndexError: list index out of range")
                             /\ ask_pc' = "idle"
                             /\ col' = ""
                             /\ ask_calls' = <<>>
                             /\ UNCHANGED ans_vars
                        ELSE /\ ask_ret' = AskRunning
                             /\ ask_pc' = "answer"
                             /\ col' = queried_document(uploaded_files_state[session_id])
                             /\ ask_calls' = <<[fn |-> "retrieve_chunks", arg |-> col']>>
                             /\ ans_question' = question
                             /\ ans_chunks' = retrieve_chunks(question, col')
                             /\ ans_pc' = "init"
                             /\ UNCHANGED <<ans_prompt, ans_calls, ans_ret>>
    /\ UNCHANGED <<env_vars, para_vars, tok_vars, size_vars, papers_vars, search_vars, sum_vars, glob_vars, hist_vars, ing_vars>>

\* lines 122-175: the answer is formatted, the topic is read from doc_stats, the related
\* papers are searched and the handler returns; an exception of answer_with_context or
\* of the lookup leaves the handler
AskFinish ==
    /\ ask_pc = "answer"
    /\ ans_pc = "done"
    /\ IF ans_ret.raised
       THEN /\ ask_ret' = AskRaised(ans_ret.value)
            /\ ask_calls' = ask_calls
       ELSE IF col \notin DOMAIN doc_stats[ask_session]
       THEN /\ ask_ret' = AskRaised("KeyError: " \o col)
            /\ ask_calls' = ask_calls
       ELSE \E papers \in PaperLists :
              /\ ask_calls' = Append(ask_calls, [fn |-> "search_papers",
                                                 arg |-> doc_stats[ask_session][col].pdf])
              /\ ask_ret' = Answered(ans_ret.value, papers)
    /\ ask_pc' = "idle"
    /\ AnswererReset
    /\ UNCHANGED <<ask_session, col, n_asks>>
    /\ UNCHANGED <<env_vars, para_vars, tok_vars, size_vars, papers_vars, search_vars, sum_vars, glob_vars, hist_vars, ing_vars>>

ask_question == AskBegin \/ AskFinish

AppIdle ==
    /\ uploaded_files_state = EmptyDict
    /\ doc_stats = EmptyDict
    /\ created_chunks = EmptyDict
    /\ ingested = {}
    /\ ing_pc = "idle"
    /\ ing_session = ""
    /\ ing_files = <<>>
    /\ ing_k = 0
    /\ ing_local = NoLocal
    /\ ing_info = <<>>
    /\ ing_ret = HandlerRunning
    /\ n_uploads = 0
    /\ ask_pc = "idle"
    /\ ask_session = ""
    /\ col = ""
    /\ ask_calls = <<>>
    /\ ask_ret = AskRunning
    /\ n_asks = 0

(***************************************************************************)
(* paper_search.py.  A response is [kind, entries]: the request raised     *)
(* ("exception"), answered with a status other than 200 ("status"), with a *)
(* body that cannot be parsed ("unparseable"), or with entries ("ok").  An *)
(* entry is [has_title, has_summary, title, similarity]; similarity is the *)
(* cosine of the embeddings, in hundredths.                                *)
(***************************************************************************)
max_results == 4

\* list.sort(key=similarity, reverse=True) is stable: x goes behind the papers that
\* are at least as similar
RECURSIVE InsertDesc(_, _)
InsertDesc(sorted, x) ==
    IF sorted = <<>> THEN <<x>>
    ELSE IF Head(sorted).similarity >= x.similarity
         THEN <<Head(sorted)>> \o InsertDesc(Tail(sorted), x)
         ELSE <<x>> \o sorted

RECURSIVE SortDesc(_, _)
SortDesc(list, k) ==
    IF k = 0 THEN <<>> ELSE InsertDesc(SortDesc(list, k - 1), list[k])

\* lines 80-105: the entries with a title and a summary, the title stripped
RECURSIVE ArxivResults(_, _)
ArxivResults(entries, k) ==
    IF k = 0 THEN <<>>
    ELSE ArxivResults(entries, k - 1)
             \o (IF ~entries[k].has_title \/ ~entries[k].has_summary THEN <<>>
                 ELSE <<[title |-> Strip(entries[k].title),
                         similarity |-> entries[k].similarity, source |-> "arXiv"]>>)

\* lines 138-164: the entries with a title and an abstract that are not empty
RECURSIVE SemanticResults(_, _)
SemanticResults(entries, k) ==
    IF k = 0 THEN <<>>
    ELSE SemanticResults(entries, k - 1)
             \o (IF ~entries[k].has_title \/ entries[k].title = "" \/ ~entries[k].has_summary
                 THEN <<>>
                 ELSE <<[title |-> entries[k].title,
                         similarity |-> entries[k].similarity,
                         source |-> "Semantic Scholar"]>>)

\* a source whose failure leaves the function
SourceFailedRaises(kind) == [raised |-> TRUE, papers |-> <<>>]

\* lines 71-72 and 111-113, 132-133 and 170-172: a failed source gives no papers
SourceFailed(kind) == [raised |-> FALSE, papers |-> <<>>]

search_arxiv_by_embedding(resp) ==
    IF resp.kind # "ok" THEN SourceFailed(resp.kind)
    ELSE LET results == ArxivResults(resp.entries, Len(resp.entries))
         IN  [raised |-> FALSE, papers |-> Take(SortDesc(results, Len(results)), max_results)]

search_semantic_scholar_by_embedding(resp) ==
    IF resp.kind # "ok" THEN SourceFailed(resp.kind)
    ELSE LET results == SemanticResults(resp.entries, Len(resp.entries))
         IN  [raised |-> FALSE, papers |-> Take(SortDesc(results, Len(results)), max_results)]

\* a comparison of the titles as they are
title_as_is(title) == title

\* line 204: paper['title'].lower().strip()
title_normalized(title) == Strip(Lower(title))

\* the whole list
similar_papers_all(papers) == papers

\* line 209: unique_papers[:7]
similar_papers(papers) == Take(papers, 7)

PapersRunning == [raised |-> FALSE, done |-> FALSE, papers |-> <<>>]
PapersRaised == [raised |-> TRUE, done |-> TRUE, papers |-> <<>>]
PapersReturned(papers) == [raised |-> FALSE, done |-> TRUE, papers |-> papers]

\* line 193
SearchArxiv ==
    /\ pap_pc = "arxiv"
    /\ LET r == search_arxiv_by_embedding(arxiv_resp)
       IN  IF r.raised
           THEN /\ pap_pc' = "done"
                /\ pap_ret' = PapersRaised
                /\ UNCHANGED arxiv_papers
           ELSE /\ pap_pc' = "semantic"
                /\ arxiv_papers' = r.papers
                /\ UNCHANGED pap_ret
    /\ UNCHANGED <<arxiv_resp, semantic_resp, semantic_papers, all_papers, seen_titles,
                   unique_papers, pap_i>>
    /\ UNCHANGED <<env_vars, para_vars, tok_vars, size_vars, sum_vars, ans_vars, app_vars, search_vars>>

\* line 194
SearchSemantic ==
    /\ pap_pc = "semantic"
    /\ LET r == search_semantic_scholar_by_embedding(semantic_resp)
       IN  IF r.raised
           THEN /\ pap_pc' = "done"
                /\ pap_ret' = PapersRaised
                /\ UNCHANGED semantic_papers
           ELSE /\ pap_pc' = "combine"
                /\ semantic_papers' = r.papers
                /\ UNCHANGED pap_ret
    /\ UNCHANGED <<arxiv_resp, semantic_resp, arxiv_papers, all_papers, seen_titles,
                   unique_papers, pap_i>>
    /\ UNCHANGED <<env_vars, para_vars, tok_vars, size_vars, sum_vars, ans_vars, app_vars, search_vars>>

\* lines 197-202
CombinePapers ==
    /\ pap_pc = "combine"
    /\ all_papers' = SortDesc(arxiv_papers \o semantic_papers,
                              Len(arxiv_papers) + Len(semantic_papers))
    /\ seen_titles' = {}
    /\ unique_papers' = <<>>
    /\ pap_i' = 0
    /\ pap_pc' = "dedup"
    /\ UNCHANGED <<arxiv_resp, semantic_resp, arxiv_papers, semantic_papers, pap_ret>>
    /\ UNCHANGED <<env_vars, para_vars, tok_vars, size_vars, sum_vars, ans_vars, app_vars, search_vars>>

\* lines 203-207: one turn of the loop
DedupPaper ==
    /\ pap_pc = "dedup"
    /\ pap_i < Len(all_papers)
    /\ LET paper == all_papers[pap_i + 1]
       IN  IF title_normalized(paper.title) \notin seen_titles
           THEN /\ seen_titles' = seen_titles \cup {title_normalized(paper.title)}
                /\ unique_papers' = Append(unique_papers, paper)
           ELSE UNCHANGED <<seen_titles, unique_papers>>
    /\ pap_i' = pap_i + 1
    /\ UNCHANGED <<arxiv_resp, semantic_resp, arxiv_papers, semantic_papers, all_papers,
                   pap_pc, pap_ret>>
    /\ UNCHANGED <<env_vars, para_vars, tok_vars, size_vars, sum_vars, ans_vars, app_vars, search_vars>>

\* lines 209-216 and search_papers line 231
PapersReturn ==
    /\ pap_pc = "dedup"
    /\ pap_i = Len(all_papers)
    /\ pap_ret' = PapersReturned(similar_papers(unique_papers))
    /\ pap_pc' = "done"
    /\ UNCHANGED <<arxiv_resp, semantic_resp, arxiv_papers, semantic_papers, all_papers,
                   seen_titles, unique_papers, pap_i>>
    /\ UNCHANGED <<env_vars, para_vars, tok_vars, size_vars, sum_vars, ans_vars, app_vars, search_vars>>

search_papers_by_embedding ==
    \/ SearchArxiv
    \/ SearchSemantic
    \/ CombinePapers
    \/ DedupPaper
    \/ PapersReturn

NoResponse == [kind |-> "none", entries |-> <<>>]

PapersIdle ==
    /\ arxiv_resp = NoResponse
    /\ semantic_resp = NoResponse
    /\ arxiv_papers = <<>>
    /\ semantic_papers = <<>>
    /\ all_papers = <<>>
    /\ seen_titles = {}
    /\ unique_papers = <<>>
    /\ pap_i = 0
    /\ pap_pc = "idle"
    /\ pap_ret = PapersRunning

(***************************************************************************)
(* token_utils.estimate_tokens and token_utils.check_pdf_size              *)
(***************************************************************************)
small_limit == 5000
medium_limit == 15000

\* a count that rounds up
estimate_tokens_ceil(text) == (TLen(text) + 3) \div 4

\* line 8: len(text) // 4
estimate_tokens(text) == TLen(text) \div 4

\* lines 46-51
SizeResult(tokens) ==
    IF tokens < small_limit
    THEN [category |-> "small", tokens |-> tokens,
          message |-> "Document size is optimal"]
    ELSE IF tokens < medium_limit
    THEN [category |-> "medium", tokens |-> tokens,
          message |-> "Document is large, will be chunked for processing"]
    ELSE [category |-> "large", tokens |-> tokens,
          message |-> "Very large document, processing may take longer"]

NoSizeResult == [category |-> "", tokens |-> 0, message |-> ""]

\* line 44
EstimateTokens ==
    /\ size_pc = "estimate"
    /\ size_tokens' = estimate_tokens(size_text)
    /\ size_pc' = "classify"
    /\ UNCHANGED <<size_text, size_ret, doc_size_ret>>
    /\ UNCHANGED <<env_vars, para_vars, tok_vars, sum_vars, ans_vars, app_vars, search_vars, papers_vars>>

\* lines 46-51
ClassifySize ==
    /\ size_pc = "classify"
    /\ size_ret' = SizeResult(size_tokens)
    /\ size_pc' = "done"
    /\ UNCHANGED <<size_text, size_tokens, doc_size_ret>>
    /\ UNCHANGED <<env_vars, para_vars, tok_vars, sum_vars, ans_vars, app_vars, search_vars, papers_vars>>

check_pdf_size == EstimateTokens \/ ClassifySize

(***************************************************************************)
(* ingest.check_document_size, called on the text check_pdf_size is given  *)
(***************************************************************************)
large_over == 8000
medium_over == 4000

\* ingest.py line 106: len(text) // 4
estimate_token_count(text) == TLen(text) \div 4

\* ingest.py lines 112-122
DocumentSizeResult(token_count) ==
    IF token_count > large_over
    THEN [category |-> "large", tokens |-> token_count,
          message |-> "Large document (" \o Str(token_count)
                          \o " tokens - may take longer to process)"]
    ELSE IF token_count > medium_over
    THEN [category |-> "medium", tokens |-> token_count,
          message |-> "Medium document (" \o Str(token_count) \o " tokens)"]
    ELSE [category |-> "small", tokens |-> token_count,
          message |-> "Small document (" \o Str(token_count) \o " tokens)"]

\* ingest.py lines 108-122, one call
check_document_size ==
    /\ size_pc # "idle"
    /\ doc_size_ret = NoSizeResult
    /\ doc_size_ret' = DocumentSizeResult(estimate_token_count(size_text))
    /\ UNCHANGED <<size_text, size_tokens, size_pc, size_ret>>
    /\ UNCHANGED <<env_vars, para_vars, tok_vars, sum_vars, ans_vars, app_vars, search_vars, papers_vars>>

SizeIdle ==
    /\ size_text = <<>>
    /\ size_tokens = 0
    /\ size_pc = "idle"
    /\ size_ret = NoSizeResult
    /\ doc_size_ret = NoSizeResult

(***************************************************************************)
(* token_utils.chunk_text_by_tokens, on plain strings                      *)
(***************************************************************************)
\* text[start:end] for 0 <= start
StrSlice(text, start, end) == SubSeq(text, start + 1, Min(end, Len(text)))

chunk_chars == chunk_tokens * 4
\* an overlap counted in tokens where line 26 counts characters
overlap_chars_in_tokens == overlap_tokens
overlap_chars == overlap_tokens * 4

\* lines 31-35: one turn of the while loop; the model follows at most MaxTurns turns
ChunkTurn ==
    /\ tok_pc = "loop"
    /\ tok_start < Len(tok_text)
    /\ Len(tok_chunks) < MaxTurns
    /\ LET end == tok_start + chunk_chars
       IN  /\ tok_chunks' = Append(tok_chunks, StrSlice(tok_text, tok_start, end))
           /\ tok_start' = end - overlap_chars
    /\ UNCHANGED <<tok_text, chunk_tokens, overlap_tokens, tok_pc>>
    /\ UNCHANGED <<env_vars, para_vars, sum_vars, ans_vars, app_vars, search_vars, papers_vars, size_vars>>

\* lines 31 and 37: the loop is left and the chunks are returned
ChunkReturn ==
    /\ tok_pc = "loop"
    /\ ~(tok_start < Len(tok_text))
    /\ tok_pc' = "done"
    /\ UNCHANGED <<tok_text, chunk_tokens, overlap_tokens, tok_chunks, tok_start>>
    /\ UNCHANGED <<env_vars, para_vars, sum_vars, ans_vars, app_vars, search_vars, papers_vars, size_vars>>

chunk_text_by_tokens == ChunkTurn \/ ChunkReturn

TokIdle ==
    /\ tok_text = ""
    /\ chunk_tokens = 0
    /\ overlap_tokens = 0
    /\ tok_chunks = <<>>
    /\ tok_start = 0
    /\ tok_pc = "idle"

(***************************************************************************)
(* ingest.chunk_text_for_llm, on plain strings                             *)
(***************************************************************************)
\* the first position from k on at which sep stands in s, 0 when there is none
RECURSIVE FindFrom(_, _, _)
FindFrom(s, sep, k) ==
    IF k + Len(sep) - 1 > Len(s) THEN 0
    ELSE IF SubSeq(s, k, k + Len(sep) - 1) = sep THEN k
    ELSE FindFrom(s, sep, k + 1)

\* s.split(sep)
RECURSIVE SplitSep(_, _)
SplitSep(s, sep) ==
    LET p == FindFrom(s, sep, 1)
    IN  IF p = 0 THEN <<s>>
        ELSE <<SubSeq(s, 1, p - 1)>> \o SplitSep(SubSeq(s, p + Len(sep), Len(s)), sep)

\* line 28
SplitParagraphs ==
    /\ para_pc = "split"
    /\ paragraphs' = SplitSep(para_text, "\n\n")
    /\ para_chunks' = <<>>
    /\ current_chunk' = ""
    /\ para_i' = 0
    /\ para_pc' = "loop"
    /\ UNCHANGED <<para_text, max_chunk_size>>
    /\ UNCHANGED <<env_vars, sum_vars, ans_vars, app_vars, search_vars, papers_vars, size_vars, tok_vars>>

\* lines 32-41: one turn of the loop
AddParagraph ==
    /\ para_pc = "loop"
    /\ para_i < Len(paragraphs)
    /\ LET paragraph == paragraphs[para_i + 1]
       IN  IF Len(current_chunk) + Len(paragraph) > max_chunk_size /\ current_chunk # ""
           THEN /\ para_chunks' = Append(para_chunks, Strip(current_chunk))
                /\ current_chunk' = paragraph
           ELSE /\ para_chunks' = para_chunks
                /\ current_chunk' =
                       (IF current_chunk # "" THEN current_chunk \o "\n\n" \o paragraph
                        ELSE paragraph)
    /\ para_i' = para_i + 1
    /\ UNCHANGED <<para_text, max_chunk_size, paragraphs, para_pc>>
    /\ UNCHANGED <<env_vars, sum_vars, ans_vars, app_vars, search_vars, papers_vars, size_vars, tok_vars>>

\* lines 44-47: the last chunk, and the return
ParagraphsReturn ==
    /\ para_pc = "loop"
    /\ para_i = Len(paragraphs)
    /\ para_chunks' =
           (IF Strip(current_chunk) # "" THEN Append(para_chunks, Strip(current_chunk))
            ELSE para_chunks)
    /\ para_pc' = "done"
    /\ UNCHANGED <<para_text, max_chunk_size, paragraphs, para_i, current_chunk>>
    /\ UNCHANGED <<env_vars, sum_vars, ans_vars, app_vars, search_vars, papers_vars, size_vars, tok_vars>>

chunk_text_for_llm == SplitParagraphs \/ AddParagraph \/ ParagraphsReturn

ParaIdle ==
    /\ para_text = ""
    /\ max_chunk_size = 0
    /\ paragraphs = <<>>
    /\ para_i = 0
    /\ current_chunk = ""
    /\ para_chunks = <<>>
    /\ para_pc = "idle"

(***************************************************************************)
(* The application: one upload handler and one question handler at a time, *)
(* run by the interface's worker threads in any interleaving.              *)
(***************************************************************************)
Init ==
    /\ groq_api_key \in BOOLEAN
    /\ SummarizerIdle
    /\ AnswererIdle
    /\ AppIdle
    /\ ParaIdle
    /\ TokIdle
    /\ SizeIdle
    /\ PapersIdle
    /\ SearchIdle

Next ==
    \/ ingest_files
    \/ summarize_document
    \/ ask_question
    \/ answer_with_context

Spec == Init /\ [][Next]_vars

(***************************************************************************)
(* The summarizer alone, on texts of every length around the slice         *)
(* boundaries.                                                             *)
(***************************************************************************)
\* a long text: a heading, then 15,000 characters of each letter in turn, so that no
\* two slices of 20,000 characters are alike
RECURSIVE Filler(_)
Filler(k) == IF k = 0 THEN Lit("Abstract. ") ELSE Filler(k - 1) \o Run(CharAt("abcdefghijklmnop", k), 15000)

\* a text of n characters
TextOfLen(n) == TSlice(Filler(n \div 15000 + 1), 0, n)

SummarizeLengths ==
    {0, 9, 50000}
        \cup {k * max_chars : k \in 1..MaxSlices}
        \cup {k * max_chars + 1 : k \in 1..MaxSlices}

InitSummarize ==
    /\ full_text \in {TextOfLen(n) : n \in SummarizeLengths}
    /\ sum_calls = <<>>
    /\ summaries = <<>>
    /\ sum_i = 0
    /\ sum_pc = "init"
    /\ sum_ret = NoRet
    /\ groq_api_key \in BOOLEAN
    /\ AnswererIdle
    /\ AppIdle
    /\ ParaIdle
    /\ TokIdle
    /\ SizeIdle
    /\ PapersIdle
    /\ SearchIdle

NextSummarize == summarize_document

SpecSummarize == InitSummarize /\ [][NextSummarize]_vars

(***************************************************************************)
(* The answerer alone, on every question and chunk list of the samples.    *)
(***************************************************************************)

SampleChunkLists ==
    { <<>>,
      <<StrChunk(Lit("Deep learning methods."))>>,
      <<StrChunk(Lit("Deep learning methods.")), StrChunk(<<>>), StrChunk(Lit("Results."))>>,
      <<DictChunk(Lit("Deep learning methods."), 1, "paper")>>,
      <<DictChunk(Lit("Deep learning methods."), 1, "paper"), DictChunk(Lit("Results."), 3, "paper")>>,
      <<DocChunk(Lit("Results."), 3, "paper")>>,
      <<StrChunk(Lit("Results.")), DictChunk(Run("a", 12), 12, "paper"), DocChunk(Lit("Results."), 3, "paper")>> }

InitAnswer ==
    /\ groq_api_key \in BOOLEAN
    /\ SummarizerIdle
    /\ ans_question \in Questions
    /\ ans_chunks \in SampleChunkLists
    /\ ans_prompt = <<>>
    /\ ans_calls = <<>>
    /\ ans_pc = "init"
    /\ ans_ret = NoRet
    /\ AppIdle
    /\ ParaIdle
    /\ TokIdle
    /\ SizeIdle
    /\ PapersIdle
    /\ SearchIdle

NextAnswer == answer_with_context

SpecAnswer == InitAnswer /\ [][NextAnswer]_vars

(***************************************************************************)
(* simple_text_search alone, on every question of the samples and every    *)
(* list of at most MaxChunks chunks with the sample texts.                 *)
(***************************************************************************)
SearchQuestions == {"", "quantum chemistry", "ATTENTION", "form", "graph attention"}
ChunkTexts == {"Graph attention networks.", "Transformers use attention"}

\* the lists of n chunks, pages numbered in document order
ChunkListsOf(n) ==
    {[i \in 1..n |-> [text |-> texts[i], page |-> i]] : texts \in [1..n -> ChunkTexts]}
SearchChunkLists == UNION {ChunkListsOf(n) : n \in 0..MaxChunks}

InitSearch ==
    /\ search_question \in SearchQuestions
    /\ search_chunks \in SearchChunkLists
    /\ relevant_chunks = <<>>
    /\ search_i = 0
    /\ search_pc = "loop"
    /\ search_ret = <<>>
    /\ groq_api_key = TRUE
    /\ SummarizerIdle
    /\ AnswererIdle
    /\ AppIdle
    /\ ParaIdle
    /\ TokIdle
    /\ SizeIdle
    /\ PapersIdle

NextSearch == simple_text_search

SpecSearch == InitSearch /\ [][NextSearch]_vars

(***************************************************************************)
(* search_papers alone, on the responses of the two sources: every failure,*)
(* every list of at most MaxEntries entries of the pools, and one list of  *)
(* six entries for each source, five with titles of their own and one that *)
(* lacks a summary or a title.                                             *)
(***************************************************************************)
Entry(title, similarity) ==
    [has_title |-> TRUE, has_summary |-> TRUE, title |-> title, similarity |-> similarity]
NoSummaryEntry(title, similarity) ==
    [has_title |-> TRUE, has_summary |-> FALSE, title |-> title, similarity |-> similarity]

ArxivPool == {Entry("Deep Nets\n", 80), Entry("Graph Theory", 50)}
SemanticPool == {Entry("deep nets ", 60), Entry("DEEP NETS", 90), Entry("Graph Theory", 50)}

ArxivLong ==
    <<Entry("Sparse Coding", 10), Entry("Kernel Methods", 30), Entry("Boosting", 50),
      Entry("Random Forests", 70), Entry("Bayesian Networks", 95),
      NoSummaryEntry("Vision", 90)>>
SemanticLong ==
    <<Entry("Speech Recognition", 20), Entry("Machine Translation", 40),
      Entry("Image Captioning", 60), Entry("Question Answering", 85),
      Entry("Parsing", 75), Entry("", 70)>>

EntryLists(pool) == UNION {[1..n -> pool] : n \in 0..MaxEntries}
FailedResponses == {[kind |-> k, entries |-> <<>>] : k \in {"exception", "status", "unparseable"}}
OkResponses(lists) == {[kind |-> "ok", entries |-> l] : l \in lists}

ArxivResponses == FailedResponses \cup OkResponses(EntryLists(ArxivPool) \cup {ArxivLong})
SemanticResponses ==
    FailedResponses \cup OkResponses(EntryLists(SemanticPool) \cup {SemanticLong})

InitPapers ==
    /\ arxiv_resp \in ArxivResponses
    /\ semantic_resp \in SemanticResponses
    /\ arxiv_papers = <<>>
    /\ semantic_papers = <<>>
    /\ all_papers = <<>>
    /\ seen_titles = {}
    /\ unique_papers = <<>>
    /\ pap_i = 0
    /\ pap_pc = "arxiv"
    /\ pap_ret = PapersRunning
    /\ groq_api_key = TRUE
    /\ SummarizerIdle
    /\ AnswererIdle
    /\ AppIdle
    /\ ParaIdle
    /\ TokIdle
    /\ SizeIdle
    /\ SearchIdle

NextPapers == search_papers_by_embedding

SpecPapers == InitPapers /\ [][NextPapers]_vars

(***************************************************************************)
(* check_pdf_size and check_document_size on one text, of every length     *)
(* within SizeWindow characters of 0 and of the limits of either function, *)
(* and on one very long text.                                              *)
(***************************************************************************)
SizeLengths ==
    (0..SizeWindow)
        \cup ((4 * small_limit - SizeWindow)..(4 * small_limit + SizeWindow))
        \cup ((4 * medium_limit - SizeWindow)..(4 * medium_limit + SizeWindow))
        \cup ((4 * medium_over - SizeWindow)..(4 * medium_over + SizeWindow))
        \cup ((4 * large_over - SizeWindow)..(4 * large_over + SizeWindow))
        \cup {8 * medium_limit}

InitSize ==
    /\ size_text \in {TextOfLen(n) : n \in SizeLengths}
    /\ size_tokens = 0
    /\ size_pc = "estimate"
    /\ size_ret = NoSizeResult
    /\ doc_size_ret = NoSizeResult
    /\ groq_api_key = TRUE
    /\ SummarizerIdle
    /\ AnswererIdle
    /\ AppIdle
    /\ ParaIdle
    /\ TokIdle
    /\ SearchIdle
    /\ PapersIdle

NextSize == check_pdf_size \/ check_document_size

SpecSize == InitSize /\ [][NextSize]_vars

(***************************************************************************)
(* chunk_text_by_tokens alone, on the texts of at most MaxTextLen letters, *)
(* chunks of at most MaxChunkTokens tokens and overlaps up to the chunk.   *)
(***************************************************************************)
Letters == "abcdefghijklmnopqrstuvwxyz"

InitTok ==
    /\ tok_text \in {SubSeq(Letters, 1, n) : n \in 0..MaxTextLen}
    /\ chunk_tokens \in 1..MaxChunkTokens
    /\ overlap_tokens \in 0..chunk_tokens
    /\ tok_chunks = <<>>
    /\ tok_start = 0
    /\ tok_pc = "loop"
    /\ groq_api_key = TRUE
    /\ SummarizerIdle
    /\ AnswererIdle
    /\ AppIdle
    /\ ParaIdle
    /\ SearchIdle
    /\ PapersIdle
    /\ SizeIdle

NextTok == chunk_text_by_tokens

SpecTok == InitTok /\ [][NextTok]_vars

(***************************************************************************)
(* chunk_text_for_llm alone, on the texts made of at most MaxParagraphs    *)
(* sample paragraphs joined by blank lines, for two chunk sizes.           *)
(***************************************************************************)
SampleParagraphs == {"", "Intro. ", "Methods", "Results are\nlisted here."}
ChunkSizes == {10, 15}

ParagraphTexts == {Join("\n\n", l) : l \in UNION {[1..n -> SampleParagraphs] : n \in 0..MaxParagraphs}}

InitPara ==
    /\ para_text \in ParagraphTexts
    /\ max_chunk_size \in ChunkSizes
    /\ paragraphs = <<>>
    /\ para_i = 0
    /\ current_chunk = ""
    /\ para_chunks = <<>>
    /\ para_pc = "split"
    /\ groq_api_key = TRUE
    /\ SummarizerIdle
    /\ AnswererIdle
    /\ AppIdle
    /\ SearchIdle
    /\ PapersIdle
    /\ SizeIdle
    /\ TokIdle

NextPara == chunk_text_for_llm

SpecPara == InitPara /\ [][NextPara]_vars

(***************************************************************************)
(* Claims about the answerer, under SpecAnswer.                            *)
(***************************************************************************)
ApologyPrefix == "I apologize, but I encountered an error while processing your question: "

InvokeRaised ==
    /\ ans_pc = "done"
    /\ ans_calls # <<>>
    /\ ~ans_calls[Len(ans_calls)].ok

\* C1: whenever llm.invoke raised inside answer_with_context, the function returned (it
\* did not raise) a string that starts with the apology and ends with the error's text,
\* for every question and chunk list.
C1_ModelFailureReturnsApology ==
    InvokeRaised =>
        LET e == ans_calls[Len(ans_calls)].error
            v == ans_ret.value
        IN  /\ ~ans_ret.raised
            /\ Len(v) = Len(ApologyPrefix) + Len(e)
            /\ SubSeq(v, 1, Len(ApologyPrefix)) = ApologyPrefix
            /\ SubSeq(v, Len(ApologyPrefix) + 1, Len(v)) = e

\* C1 witness: the call timed out on a list of dict chunks and the apology was returned
C1_Witness ==
    /\ InvokeRaised
    /\ ans_calls[1].error = "Request timed out."
    /\ Len(ans_chunks) = 2
    /\ ans_chunks[1].kind = "dict"
    /\ ans_ret = Returned(ApologyPrefix \o "Request timed out.")

(***************************************************************************)
(* Claims about the summarizer, under SpecSummarize.                       *)
(***************************************************************************)
\* the number of 20,000-character slices of a text of n characters
NumSlices(n) == (n + max_chars - 1) \div max_chars

\* the k-th slice (1-based) of the text, cut from the text itself
SliceNo(text, k) == TSlice(text, (k - 1) * max_chars, k * max_chars)

SomePartialOk == \E k \in 1..Len(sum_calls) : sum_calls[k].kind = "partial" /\ sum_calls[k].ok
SummarizeReturned == sum_pc = "done" /\ ~sum_ret.raised
ChunkedPath == TLen(full_text) > max_chars

\* C2: for a text longer than 20,000 characters the k-th call, k <= min(3, slices), is the
\* partial call for the k-th slice whatever the earlier calls did, no later slice is ever
\* requested, and on return exactly one reduction call follows the partial calls when a
\* partial succeeded (none when none did).
C2_PartialsInOrderThenOneReduction ==
    ChunkedPath =>
        LET m == Min(3, NumSlices(TLen(full_text)))
        IN  /\ Len(sum_calls) <= m + 1
            /\ \A k \in 1..Len(sum_calls) :
                  IF k <= m
                  THEN /\ sum_calls[k].kind = "partial"
                       /\ TEq(sum_calls[k].prompt, PartialPrompt(SliceNo(full_text, k)))
                  ELSE /\ sum_calls[k].kind = "reduce"
                       /\ SomePartialOk
            /\ (SummarizeReturned =>
                  Len(sum_calls) = (IF SomePartialOk THEN m + 1 ELSE m))

\* C2 witness: the 50,000-character text returned after 3 partial calls, the first of
\* them failed, and one reduction call
C2_Witness ==
    /\ TLen(full_text) = 50000
    /\ SummarizeReturned
    /\ Len(sum_calls) = 4
    /\ ~sum_calls[1].ok
    /\ sum_calls[3].kind = "partial"
    /\ sum_calls[4].kind = "reduce"

\* C3: when every partial call failed, summarize_document returns the one fixed string
\* "Unable to generate summary due to processing errors.", raises nothing and has made
\* no reduction call.
C3_AllPartialsFailFixedString ==
    (sum_pc = "done" /\ ChunkedPath /\ sum_calls # <<>> /\ ~SomePartialOk) =>
        /\ sum_ret = Returned("Unable to generate summary due to processing errors.")
        /\ \A k \in 1..Len(sum_calls) : sum_calls[k].kind = "partial"

\* C3 witness: three partial calls failed with two different errors
C3_Witness ==
    /\ sum_pc = "done"
    /\ Len(sum_calls) = 3
    /\ ~SomePartialOk
    /\ sum_calls[1].error # sum_calls[2].error

ReduceCallFailed ==
    /\ sum_pc = "done"
    /\ sum_calls # <<>>
    /\ sum_calls[Len(sum_calls)].kind = "reduce"
    /\ ~sum_calls[Len(sum_calls)].ok

\* C4 as stated: when the reduction call fails after a partial succeeded, the value
\* returned is the concatenation of the partial summaries that succeeded.
C4_ReduceFailureReturnsPartials ==
    ReduceCallFailed =>
        /\ ~sum_ret.raised
        /\ sum_ret.value \in {Join(" ", summaries), Join("", summaries), Join("\n", summaries)}

\* C4 amended: when the reduction call fails after a partial succeeded, the value
\* returned is "Summary generation failed: " followed by the error's text, and the
\* partial summaries are not part of it.
C4_ReduceFailureReturnsErrorMessage ==
    ReduceCallFailed =>
        sum_ret = Returned("Summary generation failed: " \o sum_calls[Len(sum_calls)].error)

\* C4 witness: a partial summary was collected and the reduction call failed
C4_Witness ==
    /\ ReduceCallFailed
    /\ summaries # <<>>
    /\ summaries[1] = "Topic summary."

(***************************************************************************)
(* Claims about ingest_files and ingest_pdf, checked under Spec.           *)
(***************************************************************************)
\* the file the upload handler is working on, or was working on when it raised
CurrentFile == ing_files[ing_k]

\* a page without text that is not white space
BlankPage(p) == p.none \/ \A k \in 1..Len(p.text) : \A j \in 1..Len(p.text[k].s) : IsSpace(CharAt(p.text[k].s, j))
AllBlank(pdf) == \A k \in 1..Len(pdf.pages) : BlankPage(pdf.pages[k])

\* ingest_pdf has returned for the current file and its stats are about to be stored
IngestPdfReturned == ing_pc = "stats"

SomeSummarizeCallFailed == \E k \in 1..Len(sum_calls) : ~sum_calls[k].ok
LastSummarizeCallFailed == sum_calls # <<>> /\ ~sum_calls[Len(sum_calls)].ok

\* C5 as stated: whenever summarize_document raised or any of its model calls failed,
\* ingest_pdf returns and the summary it returns is not empty.
C5_AnyFailureGivesNonEmptySummary ==
    /\ (ing_ret.state = "raised" => (~CurrentFile.pdf.parses \/ AllBlank(CurrentFile.pdf)))
    /\ (IngestPdfReturned /\ (sum_ret.raised \/ SomeSummarizeCallFailed)) =>
           ing_local.doc_summary # <<>>

\* C5 amended: the upload handler raises only for a file that cannot be read or has no
\* page with text, never because of the summarizer; ingest_pdf returns the number of
\* chunks, the number of pages, the summary and the name; the summary is not empty when
\* summarize_document raised (it is then the first-page preview), when every partial
\* call failed, or when the direct or the reduction call failed.
C5_SummarizationNeverAbortsIngestion ==
    /\ (ing_ret.state = "raised" => (~CurrentFile.pdf.parses \/ AllBlank(CurrentFile.pdf)))
    /\ IngestPdfReturned =>
          /\ ing_local.pdf_name = "a" \/ ing_local.pdf_name = "b"
          /\ ing_local.n >= 1 /\ ing_local.pages >= 1
          /\ sum_ret.raised =>
                ing_local.doc_summary =
                    FallbackSummary(load_pdf(CurrentFile.pdf), ing_local.pdf_name)
          /\ (sum_ret.raised \/ LastSummarizeCallFailed) => ing_local.doc_summary # <<>>

\* C5 witness: summarize_document raised and ingest_pdf returned the preview of page 1
C5_Witness ==
    /\ IngestPdfReturned
    /\ sum_ret.raised
    /\ CurrentFile.pdf = ThreePagePdf
    /\ ing_local.doc_summary =
           Lit("Document: a. First page preview: ") \o Lit("Deep learning methods.") \o Lit("...")

\* the step of the upload handler that loads the current file
LoadStep == ing_pc = "next" /\ ing_k <= Len(ing_files) /\ ing_pc' # "next"

\* C6: loading a file that parses and whose pages are all blank raises the error
\* "No text could be extracted from <name>" out of the handler, with no call of the
\* summarizer made and nothing added to uploaded_files_state or doc_stats; loading a
\* file with a page that is not blank never raises it.
C6_NoTextFailsBeforeSummarization ==
    [][LoadStep =>
        /\ (CurrentFile.pdf.parses /\ AllBlank(CurrentFile.pdf)) =>
              /\ ing_ret' = HandlerRaised("No text could be extracted from "
                                              \o DocName(save_uploaded_file(CurrentFile)))
              /\ ing_pc' = "idle"
              /\ sum_pc' = "idle" /\ sum_calls' = <<>>
              /\ UNCHANGED <<uploaded_files_state, doc_stats, ingested>>
        /\ ~AllBlank(CurrentFile.pdf) =>
              /\ ing_ret'.state # "raised"
              /\ sum_pc' = "init"]_vars

\* C6 witness: the scanned file was loaded and the handler raised for it
C6_Witness ==
    /\ ing_pc = "idle"
    /\ ing_k = 1
    /\ CurrentFile.pdf = ScannedPdf
    /\ ing_ret = HandlerRaised("No text could be extracted from a")
    /\ uploaded_files_state[ing_session] = <<>>

\* C7 as stated: the page count ingest_pdf returns is the number of pages of the PDF,
\* blank pages included.
C7_PageCountIsTotalPages ==
    IngestPdfReturned => ing_local.pages = Len(CurrentFile.pdf.pages)

(***************************************************************************)
(* Claims about ask_question, checked under Spec.                          *)
(***************************************************************************)
\* the step of the question handler that receives the question
AskStep == ask_pc = "idle" /\ n_asks' = n_asks + 1

NoneIngestedIn(session_id) == \A p \in ingested : p[1] # session_id

\* C8: a question asked in a session in which no ingest_pdf has returned gives the
\* no-documents answer: the handler returns at once, having called neither
\* retrieve_chunks nor answer_with_context nor search_papers, and uploaded_files_state
\* and doc_stats are as before.
C8_NoDocumentsNoCalls ==
    [][(AskStep /\ NoneIngestedIn(ask_session')) =>
        /\ ask_ret' = NoDocumentsUploaded
        /\ ask_pc' = "idle"
        /\ ask_calls' = <<>>
        /\ ans_pc' = "idle" /\ ans_calls' = <<>>
        /\ UNCHANGED <<uploaded_files_state, doc_stats>>]_vars

\* C8 witness: the question was asked in the second session, which has an empty list
\* after a failed upload, while the default session has a document
C8_Witness ==
    /\ ask_ret = NoDocumentsUploaded
    /\ ask_session = "s2"
    /\ ask_pc = "idle"
    /\ "s2" \in DOMAIN uploaded_files_state
    /\ uploaded_files_state["s2"] = <<>>
    /\ "user_session" \in DOMAIN uploaded_files_state
    /\ uploaded_files_state["user_session"] # <<>>

\* the text of a retrieved element is the text of a chunk created for the document
IsChunkOf(c, name) ==
    /\ name \in DOMAIN created_chunks
    /\ \E j \in 1..Len(created_chunks[name]) : TEq(c.text, created_chunks[name][j].text)

\* C9 as stated: every element retrieve_chunks returned to ask_question is a chunk of
\* the document, created when the document was ingested.
C9_RetrievedAreDocumentChunks ==
    ask_pc = "answer" => \A i \in 1..Len(ans_chunks) : IsChunkOf(ans_chunks[i], col)

(***************************************************************************)
(* Claims about simple_text_search, checked under SpecSearch.              *)
(***************************************************************************)
SearchDone == search_pc = "done"

\* the words of a string, lowered
Tokens(s) == {Split(Lower(s))[k] : k \in 1..Len(Split(Lower(s)))}

\* the question has no word that is a word of some chunk
SharesNoToken ==
    \A i \in 1..Len(search_chunks) :
        Tokens(search_question) \cap Tokens(search_chunks[i].text) = {}

\* the question has no word that occurs inside the text of some chunk
NoWordOccurs ==
    \A i \in 1..Len(search_chunks) : \A w \in Tokens(search_question) :
        ~Contains(Lower(search_chunks[i].text), w)

C11_AtMostKChunks ==
    SearchDone => Len(search_ret) <= 5

\* the number of words of the question that are words of the chunk's text
Score(chunk) == Cardinality(Tokens(search_question) \cap Tokens(chunk.text))

\* C12 as stated: the chunks returned are in non-increasing order of the number of
\* words they share with the question, chunks of equal score in document order.
C12_DescendingScoreStable ==
    SearchDone =>
        \A i, j \in 1..Len(search_ret) :
            i < j =>
                /\ Score(search_ret[i]) >= Score(search_ret[j])
                /\ Score(search_ret[i]) = Score(search_ret[j]) =>
                       search_ret[i].page < search_ret[j].page

(***************************************************************************)
(* Claims about repeated and batched uploads, checked under Spec.          *)
(***************************************************************************)
\* no name is twice in the list
NoDuplicates(list) == \A i, j \in 1..Len(list) : list[i] = list[j] => i = j

\* the upload handler has stored the stats of a file and not yet begun the next
StatsJustStored == ing_pc = "next" /\ ing_k > 1

\* C13 as stated: each name is at most once in the list of its session, and the stats
\* stored for a name are those of its most recent ingestion.
C13_ReingestOverwrites ==
    /\ \A session_id \in DOMAIN uploaded_files_state :
           NoDuplicates(uploaded_files_state[session_id])
    /\ StatsJustStored =>
           /\ ing_local.pdf_name \in DOMAIN doc_stats[ing_session]
           /\ doc_stats[ing_session][ing_local.pdf_name].pages = ing_local.pages
           /\ doc_stats[ing_session][ing_local.pdf_name].chunks = ing_local.n
           /\ doc_stats[ing_session][ing_local.pdf_name].topic_summary = ing_local.doc_summary

\* a file ingest_pdf can ingest
Ingestible(f) == f.pdf.parses /\ ~AllBlank(f.pdf)

\* the upload handler has ended, by a return or by an exception
IngestFilesEnded == ing_pc = "idle" /\ ing_ret.state \in {"returned", "raised"}

Registered(session_id, name) ==
    /\ \E i \in 1..Len(uploaded_files_state[session_id]) :
           uploaded_files_state[session_id][i] = name
    /\ name \in DOMAIN doc_stats[session_id]

\* C14 as stated: when the upload handler has ended, every file of its batch that
\* can be ingested is registered in uploaded_files_state and doc_stats, whether
\* another file of the batch failed before it or after it.
C14_BatchFailureIsPerDocument ==
    IngestFilesEnded =>
        \A k \in 1..Len(ing_files) :
            Ingestible(ing_files[k]) =>
                Registered(ing_session, DocName(save_uploaded_file(ing_files[k])))

(***************************************************************************)
(* Claims about search_papers, checked under SpecPapers.                   *)
(***************************************************************************)
PapersDone == pap_pc = "done"

\* a title lowered and trimmed
Normalized(title) == Strip(Lower(title))

\* the candidates: the papers the two sources handed over
Candidates == {all_papers[k] : k \in 1..Len(all_papers)}
SameTitle(c) == {d \in Candidates : Normalized(d.title) = Normalized(c.title)}
ReturnedWithTitle(c) == {k \in 1..Len(pap_ret.papers) : Normalized(pap_ret.papers[k].title) = Normalized(c.title)}

\* C15: the list returned has at most one paper of each normalized title; of
\* candidates whose titles differ in case or surrounding white space only, exactly one
\* is returned, and none of them is more similar than it.
C15_OnePaperPerNormalizedTitle ==
    PapersDone =>
        /\ \A i, j \in 1..Len(pap_ret.papers) :
               Normalized(pap_ret.papers[i].title) = Normalized(pap_ret.papers[j].title) => i = j
        /\ \A c \in Candidates :
               Cardinality(SameTitle(c)) >= 2 =>
                   /\ Cardinality(ReturnedWithTitle(c)) = 1
                   /\ \A k \in ReturnedWithTitle(c) :
                          /\ pap_ret.papers[k] \in SameTitle(c)
                          /\ \A d \in SameTitle(c) : d.similarity <= pap_ret.papers[k].similarity

\* C15 witness: 'Deep Nets' of arXiv and 'DEEP NETS' and 'deep nets ' of Semantic Scholar
\* were candidates, and the one returned is the most similar, 'DEEP NETS'
C15_Witness ==
    /\ PapersDone
    /\ Len(all_papers) = 3
    /\ {all_papers[k].title : k \in 1..3} = {"Deep Nets", "DEEP NETS", "deep nets "}
    /\ Len(pap_ret.papers) = 1
    /\ pap_ret.papers[1].title = "DEEP NETS"

SourceOk(resp) == resp.kind = "ok"
TitlesOf(papers) == {Normalized(papers[k].title) : k \in 1..Len(papers)}
SourcesOf(papers) == {papers[k].source : k \in 1..Len(papers)}

\* C16: search_papers never raises; when one source failed, the list returned is made
\* of the papers of the other source, one for each of their titles; when both sources
\* failed or had no paper, the list returned is empty.
C16_FailedSourceIsSkipped ==
    PapersDone =>
        /\ ~pap_ret.raised
        /\ (~SourceOk(arxiv_resp) /\ SourceOk(semantic_resp)) =>
               /\ SourcesOf(pap_ret.papers) \subseteq {"Semantic Scholar"}
               /\ TitlesOf(pap_ret.papers) = TitlesOf(semantic_papers)
               /\ semantic_papers =
                      search_semantic_scholar_by_embedding(semantic_resp).papers
        /\ (SourceOk(arxiv_resp) /\ ~SourceOk(semantic_resp)) =>
               /\ SourcesOf(pap_ret.papers) \subseteq {"arXiv"}
               /\ TitlesOf(pap_ret.papers) = TitlesOf(arxiv_papers)
               /\ arxiv_papers = search_arxiv_by_embedding(arxiv_resp).papers
        /\ ((~SourceOk(arxiv_resp) \/ arxiv_papers = <<>>)
                /\ (~SourceOk(semantic_resp) \/ semantic_papers = <<>>)) =>
               pap_ret = PapersReturned(<<>>)

\* C16 witness: the arXiv request raised, Semantic Scholar answered with two papers,
\* and both are returned
C16_Witness ==
    /\ PapersDone
    /\ arxiv_resp.kind = "exception"
    /\ semantic_resp = [kind |-> "ok", entries |-> <<Entry("Graph Theory", 50), Entry("DEEP NETS", 90)>>]
    /\ Len(pap_ret.papers) = 2
    /\ pap_ret.papers[1].title = "DEEP NETS"
    /\ pap_ret.papers[2].title = "Graph Theory"

\* C17: the list returned has at most 7 papers, in non-increasing order of similarity,
\* and each source has handed over at most 4 papers.
C17_AtMostSevenDescending ==
    PapersDone =>
        /\ Len(pap_ret.papers) <= 7
        /\ \A i, j \in 1..Len(pap_ret.papers) :
               i < j => pap_ret.papers[i].similarity >= pap_ret.papers[j].similarity
        /\ Len(arxiv_papers) <= 4
        /\ Len(semantic_papers) <= 4

\* C17 witness: each source answered with five papers and an entry it skips, eight
\* candidates with titles of their own were left, and seven are returned
C17_Witness ==
    /\ PapersDone
    /\ Len(arxiv_resp.entries) = 6
    /\ Len(semantic_resp.entries) = 6
    /\ Len(unique_papers) = 8
    /\ Len(pap_ret.papers) = 7
    /\ pap_ret.papers[1].title = "Bayesian Networks"
    /\ pap_ret.papers[7].title = "Machine Translation"

(***************************************************************************)
(* Claims about check_pdf_size, checked under SpecSize.                    *)
(***************************************************************************)
SizeDone == size_pc = "done"

\* C18: the estimate returned is len(text) divided by 4, rounded down, and the
\* category is 'small' exactly when the estimate is below 5,000, 'medium' exactly when
\* it is at least 5,000 and below 15,000, and 'large' otherwise.
C18_SizeCategories ==
    SizeDone =>
        /\ 4 * size_ret.tokens <= TLen(size_text)
        /\ TLen(size_text) < 4 * size_ret.tokens + 4
        /\ size_ret.category \in {"small", "medium", "large"}
        /\ size_ret.category = "small" <=> size_ret.tokens < 5000
        /\ size_ret.category = "medium" <=> (size_ret.tokens >= 5000 /\ size_ret.tokens < 15000)
        /\ size_ret.category = "large" <=> size_ret.tokens >= 15000

\* C18 witness: a text of 59,999 characters is estimated at 14,999 tokens and is medium
C18_Witness ==
    /\ SizeDone
    /\ TLen(size_text) = 59999
    /\ size_ret.tokens = 14999
    /\ size_ret.category = "medium"

(***************************************************************************)
(* Claims about chunk_text_by_tokens, checked under SpecTok.               *)
(***************************************************************************)
TokDone == tok_pc = "done"

\* C19 as stated: with an overlap smaller than the chunk, a text that is not empty and
\* shorter than 4 * chunk_tokens characters gives exactly one chunk, the text.
C19_ShortTextOneChunk ==
    (TokDone /\ overlap_tokens < chunk_tokens
        /\ 0 < Len(tok_text) /\ Len(tok_text) < 4 * chunk_tokens) =>
        tok_chunks = <<tok_text>>

(***************************************************************************)
(* Claims about chunk_text_for_llm, checked under SpecPara.                *)
(***************************************************************************)
ParaDone == para_pc = "done"

\* C20 as stated: no chunk returned is longer than max_chunk_size characters.
C20_NoChunkOverMaxSize ==
    ParaDone => \A k \in 1..Len(para_chunks) : Len(para_chunks[k]) <= max_chunk_size

(***************************************************************************)
(* The round trip of chunk_text_by_tokens, checked under SpecTok.          *)
(***************************************************************************)
\* chunk[n:], the chunk without its first n characters
DropFirst(chunk, n) == IF n >= Len(chunk) THEN "" ELSE SubSeq(chunk, n + 1, Len(chunk))

\* chunk[:n], the first n characters of the chunk
KeepFirst(chunk, n) == SubSeq(chunk, 1, Min(n, Len(chunk)))

\* the last n characters of the chunk, for n <= len(chunk)
KeepLast(chunk, n) == SubSeq(chunk, Len(chunk) - n + 1, Len(chunk))

RECURSIVE Rejoin(_, _)
\* the first chunk followed by every later chunk without its first n characters
Rejoin(chunks, n) ==
    IF chunks = <<>> THEN ""
    ELSE IF Len(chunks) = 1 THEN chunks[1]
    ELSE Rejoin(SubSeq(chunks, 1, Len(chunks) - 1), n) \o DropFirst(chunks[Len(chunks)], n)

\* chunk stands in text at some position, character for character
IsSubstring(chunk, text) ==
    \E s \in 0..Len(text) : StrSlice(text, s, s + Len(chunk)) = chunk

C22_SmallTextOneDirectCall ==
    TLen(full_text) <= 20000 =>
        /\ \A k \in 1..Len(sum_calls) : sum_calls[k].kind = "direct"
        /\ Len(sum_calls) <= 1
        /\ SummarizeReturned =>
              /\ Len(sum_calls) = 1
              /\ TEq(sum_calls[1].prompt, DirectPrompt(full_text))
              /\ TLen(sum_calls[1].prompt) = TLen(full_text) + TLen(DirectPrompt(<<>>))
              /\ sum_calls[1].ok =>
                    /\ sum_ret.value = Strip(sum_calls[1].content)
                    /\ sum_ret.value = "" \/ (~IsSpace(CharAt(sum_ret.value, 1))
                                              /\ ~IsSpace(CharAt(sum_ret.value, Len(sum_ret.value))))
              /\ ~sum_calls[1].ok =>
                    sum_ret.value = "Summary generation failed: " \o sum_calls[1].error

\* C22 witness: the text of exactly 20,000 characters was summarized by one call whose
\* content came back with whitespace around it
C22_Witness ==
    /\ TLen(full_text) = 20000
    /\ SummarizeReturned
    /\ Len(sum_calls) = 1
    /\ sum_calls[1].ok
    /\ sum_calls[1].content = "  Topic summary.\n"
    /\ sum_ret.value = "Topic summary."

(***************************************************************************)
(* The chunk labels of the answerer's prompt, checked under SpecAnswer.    *)
(***************************************************************************)
\* part stands in the text t at some position
TContains(t, part) ==
    \E off \in 0..(TLen(t) - TLen(part)) : TEq(TSlice(t, off, off + TLen(part)), part)

\* the label of the i-th chunk with the chunk's own source and page, and the chunk's text
LabelledChunk(i, c) ==
    Lit("[Chunk " \o Str(i) \o " from " \o c.source \o " page=" \o Str(c.page) \o "]\n")
        \o c.text \o Lit("\n\n")

\* C23 as stated: in the prompt built by answer_with_context, every chunk that has a
\* source and a page (an object with metadata, or the dict that ingest_pdf builds) is
\* listed as '[Chunk i from <source> page=<page>]' with its own source and page,
\* followed by its text.
C23_ChunkLabelCarriesSourceAndPage ==
    ans_pc = "invoke" =>
        \A i \in 1..Len(ans_chunks) :
            ans_chunks[i].kind # "str" => TContains(ans_prompt, LabelledChunk(i, ans_chunks[i]))

(***************************************************************************)
(* The chunks ingest_pdf builds, checked under Spec.                       *)
(***************************************************************************)
\* the 1-based numbers of the pages of the PDF whose text is not blank
TextPageNumbers(pdf) == {k \in 1..Len(pdf.pages) : ~BlankPage(pdf.pages[k])}

\* C24: when ingest_pdf has returned for a file, the chunk count it returned is the
\* number of pages of the PDF whose text is not empty after trimming; one chunk was
\* built for each of these pages and none for the others, in ascending page order, and
\* each chunk carries the text and the 1-based number of its page and the document's
\* name as its source.
C24_OneChunkPerTextPageInOrder ==
    IngestPdfReturned =>
        LET pdf == CurrentFile.pdf
            name == ing_local.pdf_name
            chunks == created_chunks[name]
        IN  /\ ing_local.n = Cardinality(TextPageNumbers(pdf))
            /\ Len(chunks) = ing_local.n
            /\ {chunks[i].page : i \in 1..Len(chunks)} = TextPageNumbers(pdf)
            /\ \A i \in 1..Len(chunks) :
                  /\ i > 1 => chunks[i - 1].page < chunks[i].page
                  /\ chunks[i].page \in 1..Len(pdf.pages)
                  /\ TEq(chunks[i].text, pdf.pages[chunks[i].page].text)
                  /\ chunks[i].source = name
                  /\ name = DocName(save_uploaded_file(CurrentFile))

\* C24 witness: ingest_pdf returned for the file of three pages whose second page is
\* empty, with two chunks, of pages 1 and 3
C24_Witness ==
    /\ IngestPdfReturned
    /\ CurrentFile.pdf = ThreePagePdf
    /\ ing_local.n = 2
    /\ created_chunks["a"][1].page = 1
    /\ created_chunks["a"][2].page = 3

(***************************************************************************)
(* The relevance test of simple_text_search, checked under SpecSearch.     *)
(***************************************************************************)
\* the chunk is in the list
InList(chunk, list) == \E k \in 1..Len(list) : list[k] = chunk

\* C25 as stated: a chunk the loop has looked at is in relevant_chunks if and only if
\* a word of the question equals, letter case aside, a word of the chunk's text; a
\* question word that only stands inside a longer word of the chunk does not select it.
C25_RelevantIffSharedToken ==
    search_pc = "loop" =>
        \A i \in 1..search_i :
            InList(search_chunks[i], relevant_chunks) <=> Score(search_chunks[i]) > 0

(***************************************************************************)
(* The topic ask_question searches papers for, checked under Spec.         *)
(***************************************************************************)
\* ask_question has just returned an answer
AskAnswered == ask_pc = "idle" /\ ask_ret.state = "returned" /\ ask_ret.kind = "answer"

\* C26 as stated: the topic ask_question hands to search_papers is the topic_summary
\* stored in doc_stats at ingestion for the document it asks about.
C26_TopicIsStoredSummary ==
    AskAnswered =>
        \A k \in 1..Len(ask_calls) :
            ask_calls[k].fn = "search_papers" =>
                TEq(Lit(ask_calls[k].arg), doc_stats[ask_session][col].topic_summary)

(***************************************************************************)
(* Termination of chunk_text_by_tokens, checked under SpecTok.             *)
(***************************************************************************)
\* a turn of the loop was taken: a chunk was appended
TurnTaken == tok_chunks' # tok_chunks

\* C27 as stated: for every text, every chunk_tokens >= 1 and every overlap_tokens >= 0,
\* an overlap as large as the chunk included, chunk_text_by_tokens terminates, and on
\* the empty text it returns no chunks.  The loop runs while start < len(text) and
\* len(text) does not change, so the function terminates exactly when every turn of
\* the loop moves start forward.
C27_ChunkingTerminates ==
    [][/\ TurnTaken => tok_start' > tok_start
       /\ (TokDone' /\ tok_text = "") => tok_chunks' = <<>>]_vars

(***************************************************************************)
(* The two size classifiers on one text, checked under SpecSize.           *)
(***************************************************************************)
\* both classifiers have returned for the text
BothSized == SizeDone /\ doc_size_ret # NoSizeResult

\* C28 as stated: for every text, check_document_size and check_pdf_size return the
\* same category and the same token estimate.
C28_SizeClassifiersAgree ==
    BothSized =>
        /\ doc_size_ret.category = size_ret.category
        /\ doc_size_ret.tokens = size_ret.tokens

(***************************************************************************)
(* ask_question running while ingest_files runs, checked under Spec.       *)
(***************************************************************************)
\* the stats lookup of ask_question (doc_stats[session_id][col]) failed
StatsLookupFailed == ask_ret = AskRaised("KeyError: " \o col)

\* C29 as stated: while ask_question runs, whatever ingest_files is doing in the same
\* session, the name it took from uploaded_files_state is a key of the session's
\* doc_stats, and its lookup of the stats never fails.
C29_AskNeverSeesNameWithoutStats ==
    /\ ask_pc = "answer" => col \in DOMAIN doc_stats[ask_session]
    /\ ~StatsLookupFailed

(***************************************************************************)
(* The document ask_question queries, checked under Spec.                  *)
(***************************************************************************)
\* the first name of every session's list stays what it is
FirstDocumentKept ==
    \A s \in DOMAIN uploaded_files_state :
        uploaded_files_state[s] # <<>> =>
            /\ s \in DOMAIN uploaded_files_state'
            /\ uploaded_files_state'[s] # <<>>
            /\ uploaded_files_state'[s][1] = uploaded_files_state[s][1]

\* every call ask_question has made, of retrieve_chunks and of search_papers, is for
\* the first name of its session's list
AsksAboutFirstDocument ==
    ask_calls # <<>> =>
        /\ col = uploaded_files_state[ask_session][1]
        /\ \A k \in 1..Len(ask_calls) : ask_calls[k].arg = uploaded_files_state[ask_session][1]

\* C30: no step changes the first name of a session's list of documents, however many
\* documents are ingested after it, and ask_question retrieves against and searches
\* related papers for that first name.
C30_AlwaysQueriesFirstDocument ==
    [][FirstDocumentKept /\ AsksAboutFirstDocument']_vars

\* C30 witness: a second document was ingested after the first, and ask_question
\* retrieved against and searched papers for the first
C30_Witness ==
    /\ AskAnswered
    /\ Len(uploaded_files_state[ask_session]) = 2
    /\ uploaded_files_state[ask_session][1] # uploaded_files_state[ask_session][2]
    /\ Len(ask_calls) = 2
    /\ ask_calls[1] = [fn |-> "retrieve_chunks", arg |-> uploaded_files_state[ask_session][1]]
    /\ ask_calls[2] = [fn |-> "search_papers", arg |-> uploaded_files_state[ask_session][1]]

====
